---------------------------- MODULE Spec2Model ----------------------------
(***************************************************************************)
(* A model of the stark-anatomy proving core (src/src/stark_anatomy):      *)
(* prime-field and polynomial arithmetic, the Merkle commitment, the       *)
(* ProofStream transcript with its Fiat-Shamir challenges, the FRI        *)
(* low-degree test and the FastStark prover and verifier.                  *)
(*                                                                         *)
(* The field of the source is the prime 1 + 407 * 2^119, whose designated  *)
(* generator has order 2^119.  The model keeps that shape at a size TLC    *)
(* can enumerate: the prime 1 + 2^8 = 257 with the generator 3, of order   *)
(* 2^8.  Every operator below computes what the Python code computes, in   *)
(* this smaller field.                                                     *)
(*                                                                         *)
(* A Python exception is modelled as an outcome: a handler yields a record *)
(* whose field exc is "" when the call returned and the exception's name   *)
(* when it raised.                                                         *)
(***************************************************************************)
EXTENDS Integers, Sequences, FiniteSets, TLC

(***************************************************************************)
(* Sequences.  Python lists are 0-based, TLA+ sequences 1-based: the       *)
(* element a Python list holds at index i is the sequence's element i + 1. *)
(***************************************************************************)
Range(s) == {s[i] : i \in 1..Len(s)}

\* a list built by a comprehension: the sequence with its elements evaluated
\* once, when it is built, as Python does
List(s) == s \o <<>>

\* Python executes the statements of a block in order: result, with the
\* values the earlier assignments computed evaluated first, in that order
InOrder(values, result) == IF values = values THEN result ELSE result

\* list[a:b] of Python, for 0 <= a <= b <= len(list)
Slice(s, a, b) == List([i \in 1..(b - a) |-> s[a + i]])

\* a stride that starts at the second element instead of the first
EvenStride_from_second(s) == List([i \in 1..((Len(s) + 1) \div 2) |-> s[Len(s) - 2 * i + 2]])

\* list[::2] of Python
EvenStride(s) == List([i \in 1..((Len(s) + 1) \div 2) |-> s[2 * i - 1]])

\* list[1::2] of Python
OddStride(s) == List([i \in 1..(Len(s) \div 2) |-> s[2 * i]])

Max2(a, b) == IF a >= b THEN a ELSE b

RECURSIVE Pow2(_)
Pow2(n) == IF n <= 0 THEN 1 ELSE 2 * Pow2(n - 1)

\* len & (len - 1) == 0 of Python, for len >= 0: zero and the powers of two
RECURSIVE AndWithPredIsZero(_)
AndWithPredIsZero(n) ==
    IF n <= 1 THEN TRUE
    ELSE IF n % 2 = 1 THEN FALSE
    ELSE AndWithPredIsZero(n \div 2)

(***************************************************************************)
(* algebra.py: the field.  A FieldElement is its canonical value in        *)
(* 0..P-1.                                                                 *)
(***************************************************************************)
P == 257

GeneratorValue == 3

\* the order of the designated generator: 1 << 119 in the source
GeneratorOrder == 256

RECURSIVE xgcd_loop(_, _, _, _, _, _)
xgcd_loop(old_r, r, old_s, s, old_t, t) ==
    IF r = 0 THEN <<old_s, old_t, old_r>>
    ELSE LET quotient == old_r \div r
             new_r == old_r - quotient * r
             new_s == old_s - quotient * s
             new_t == old_t - quotient * t
         IN  InOrder(<<new_r, new_s, new_t>>,
                     xgcd_loop(r, new_r, s, new_s, t, new_t))

xgcd(x, y) == xgcd_loop(x, y, 1, 0, 0, 1)

Field_multiply(left, right) == (left * right) % P

Field_add(left, right) == (left + right) % P

Field_subtract(left, right) == (P + left - right) % P

Field_negate(operand) == (P - operand) % P

\* Field.divide raises ValueError when right == 0; DivideRaises says so, and
\* Field_divide is the value it returns otherwise.
DivideRaises(right) == right % P = 0

Field_divide(left, right) == (left * xgcd(right, P)[1]) % P

Field_inverse(operand) == Field_divide(1, operand)

\* FieldElement.__pow__: square and multiply over bin(exponent)[2:], most
\* significant bit first
RECURSIVE BinDigits(_)
BinDigits(n) == IF n <= 1 THEN <<n>> ELSE Append(BinDigits(n \div 2), n % 2)

\* bin(exponent)[2:]: the binary digits; for a negative exponent bin() is
\* "-0b..." and the slice starts at the letter b, written 2 here
Bin(exponent) ==
    IF exponent >= 0 THEN BinDigits(exponent) ELSE <<2>> \o BinDigits(0 - exponent)

RECURSIVE pow_loop(_, _, _, _)
pow_loop(acc, val, bits, i) ==
    IF i > Len(bits) THEN acc
    ELSE LET sq == Field_multiply(acc, acc)
             next == IF bits[i] # 0 THEN Field_multiply(sq, val) ELSE sq
         IN  InOrder(next, pow_loop(next, val, bits, i + 1))

FieldElement_pow(val, exponent) == pow_loop(1, val, Bin(exponent), 1)

Field_generator == GeneratorValue

RECURSIVE nth_root_loop(_, _, _)
nth_root_loop(root, order, n) ==
    IF order = n THEN root
    ELSE nth_root_loop(FieldElement_pow(root, 2), order \div 2, n)

\* Field.primitive_nth_root raises ValueError for n > order or n no power of 2
NthRootRaises(n) == n > GeneratorOrder \/ n < 1 \/ ~AndWithPredIsZero(n)

Field_primitive_nth_root(n) == nth_root_loop(GeneratorValue, GeneratorOrder, n)

\* Field.sample: the bytes folded big-endian into an integer, reduced mod p
RECURSIVE fold_bytes(_, _, _)
fold_bytes(seed, i, acc) ==
    IF i > Len(seed) THEN acc
    ELSE fold_bytes(seed, i + 1, acc * 256 + seed[i])

Field_sample(seed) == fold_bytes(seed, 1, 0) % P

\* FieldElement.__bytes__: str(value).encode(), the decimal digits as bytes
RECURSIVE DecimalDigits(_)
DecimalDigits(n) ==
    IF n < 10 THEN <<48 + n>> ELSE Append(DecimalDigits(n \div 10), 48 + (n % 10))

FieldElement_bytes(v) == DecimalDigits(v)

(***************************************************************************)
(* univariate.py: a Polynomial is its coefficient list, low to high; the   *)
(* constructor trims trailing zeros.                                       *)
(***************************************************************************)
\* Polynomial.trim pops the trailing zeros: what stays is the coefficients up
\* to the last one that is not zero
Polynomial_trim(c) ==
    SubSeq(c, 1, CHOOSE n \in 0..Len(c) :
                    /\ n = 0 \/ c[n] # 0
                    /\ \A k \in (n + 1)..Len(c) : c[k] = 0)

Polynomial_new(coefficients) == Polynomial_trim(coefficients)

Polynomial_degree(p) == Len(p) - 1

Polynomial_leading_coefficient(p) == p[Len(p)]

Polynomial_neg(p) == Polynomial_new(List([i \in 1..Len(p) |-> Field_negate(p[i])]))

Polynomial_add(self, other) ==
    IF Len(self) = 0 THEN other
    ELSE IF Len(other) = 0 THEN self
    ELSE Polynomial_new(
           List([i \in 1..Max2(Len(self), Len(other)) |->
               Field_add(IF i <= Len(self) THEN self[i] ELSE 0,
                         IF i <= Len(other) THEN other[i] ELSE 0)]))

Polynomial_sub(self, other) == Polynomial_add(self, Polynomial_neg(other))

\* the sum of a list of field elements; the list is split in two so that the
\* evaluation stays shallow
RECURSIVE Field_sum(_, _, _)
Field_sum(s, lo, hi) ==
    IF lo > hi THEN 0
    ELSE IF lo = hi THEN s[lo] % P
    ELSE LET mid == (lo + hi) \div 2
         IN  Field_add(Field_sum(s, lo, mid), Field_sum(s, mid + 1, hi))

\* buf[i + j] += self[i] * other[j]: coefficient k of the product is the sum
\* of the self[i] * other[k - i]
Polynomial_mul(self, other) ==
    IF Len(self) = 0 \/ Len(other) = 0 THEN <<>>
    ELSE Polynomial_new(
           List([k \in 1..(Len(self) + Len(other) - 1) |->
               LET first == Max2(1, k + 1 - Len(other))
                   last == IF k <= Len(self) THEN k ELSE Len(self)
               IN  Field_sum(List([n \in 1..(last - first + 1) |->
                                 Field_multiply(self[first + n - 1],
                                                other[k - first - n + 2])]),
                             1, last - first + 1)]))

\* Polynomial.__divmod__ for other # 0 (it raises ValueError for other == 0):
\* the long-division loop, at most degree(self) - degree(other) + 1 rounds
RECURSIVE divmod_loop(_, _, _, _)
divmod_loop(remainder, other, quotient_coefficients, rounds) ==
    IF rounds = 0 \/ Polynomial_degree(remainder) < Polynomial_degree(other)
    THEN <<Polynomial_new(quotient_coefficients), Polynomial_trim(remainder)>>
    ELSE LET coefficient == Field_divide(Polynomial_leading_coefficient(remainder),
                                         Polynomial_leading_coefficient(other))
             shift == Polynomial_degree(remainder) - Polynomial_degree(other)
             subtractee == Polynomial_mul(
                 Polynomial_new(List([i \in 1..(shift + 1) |->
                                    IF i = shift + 1 THEN coefficient ELSE 0])),
                 other)
             reduced == Polynomial_sub(remainder, subtractee)
             quotient == [quotient_coefficients EXCEPT ![shift + 1] = coefficient]
         IN  InOrder(<<coefficient, subtractee, reduced, quotient>>,
                     divmod_loop(reduced, other, quotient, rounds - 1))

\* the long division stopped one round early
Polynomial_divmod_short(self, other) ==
    IF Polynomial_degree(self) < Polynomial_degree(other) THEN <<<<>>, self>>
    ELSE divmod_loop(Polynomial_new(self), other,
            List([i \in 1..(Polynomial_degree(self) - Polynomial_degree(other) + 1) |-> 0]),
            Polynomial_degree(self) - Polynomial_degree(other))

Polynomial_divmod(self, other) ==
    IF Polynomial_degree(self) < Polynomial_degree(other) THEN <<<<>>, self>>
    ELSE divmod_loop(Polynomial_new(self), other,
            List([i \in 1..(Polynomial_degree(self) - Polynomial_degree(other) + 1) |-> 0]),
            Polynomial_degree(self) - Polynomial_degree(other) + 1)

\* Polynomial.__truediv__: raises AssertionError unless the remainder is zero
TruedivRaises(self, other) ==
    Len(other) = 0 \/ Polynomial_divmod(self, other)[2] # <<>>

Polynomial_truediv(self, other) == Polynomial_divmod(self, other)[1]

Polynomial_mod(self, other) == Polynomial_divmod(self, other)[2]

\* Polynomial.evaluate: value += c * xi; xi *= point, that is the sum of the
\* c[i] * point^i
Polynomial_evaluate(p, point) ==
    Field_sum(List([i \in 1..Len(p) |->
                  Field_multiply(p[i], FieldElement_pow(point, i - 1))]),
              1, Len(p))

Polynomial_evaluate_domain(p, domain) ==
    List([i \in 1..Len(domain) |-> Polynomial_evaluate(p, domain[i])])

\* Polynomial.interpolate raises ValueError on an empty domain, and on a
\* repeated point (the division by domain[i] - domain[j] == 0)
InterpolateRaises(domain) ==
    \/ Len(domain) = 0
    \/ \E i, j \in 1..Len(domain) : i # j /\ domain[i] = domain[j]

\* the product and the sum of a list of polynomials, the list split in two
RECURSIVE Polynomial_product(_, _, _)
Polynomial_product(polys, lo, hi) ==
    IF lo > hi THEN <<1>>
    ELSE IF lo = hi THEN polys[lo]
    ELSE LET mid == (lo + hi) \div 2
         IN  Polynomial_mul(Polynomial_product(polys, lo, mid),
                            Polynomial_product(polys, mid + 1, hi))

RECURSIVE Polynomial_sum(_, _, _)
Polynomial_sum(polys, lo, hi) ==
    IF lo > hi THEN <<>>
    ELSE IF lo = hi THEN polys[lo]
    ELSE LET mid == (lo + hi) \div 2
         IN  Polynomial_add(Polynomial_sum(polys, lo, mid),
                            Polynomial_sum(polys, mid + 1, hi))

\* prod = values[i] times, for every j # i, (x - domain[j]) / (domain[i] -
\* domain[j]); acc is the sum of the prods
Polynomial_interpolate(domain, values) ==
    LET n == Len(domain)
        factor(i, j) ==
            IF j = i THEN <<1>>
            ELSE Polynomial_truediv(
                     Polynomial_add(<<0, 1>>, Polynomial_new(<<Field_negate(domain[j])>>)),
                     Polynomial_new(<<Field_subtract(domain[i], domain[j])>>))
        prod(i) ==
            Polynomial_mul(Polynomial_new(<<values[i]>>),
                           Polynomial_product(List([j \in 1..n |-> factor(i, j)]), 1, n))
    IN  Polynomial_trim(Polynomial_sum(List([i \in 1..n |-> prod(i)]), 1, n))

Polynomial_is_colinear(points) ==
    Polynomial_degree(
        Polynomial_interpolate(List([i \in 1..Len(points) |-> points[i][1]]),
                               List([i \in 1..Len(points) |-> points[i][2]]))) = 1


(***************************************************************************)
(* Outcomes of a call: exc is "" when it returned val, and the name of the *)
(* exception when it raised.                                               *)
(***************************************************************************)
Ok(v) == [exc |-> "", val |-> v]

Raise(e) == [exc |-> e, val |-> <<>>]

RaiseB(e) == [exc |-> e, val |-> FALSE]

\* the depth at which the Python interpreter raises RecursionError
RecursionLimit == 12

(***************************************************************************)
(* hashlib.  A byte string is a sequence of numbers in 0..255.  A digest   *)
(* is a byte string of DigestBytes bytes, a deterministic mix of the       *)
(* hashed bytes; blake2b and shake_256 differ in their initial state.      *)
(***************************************************************************)
DigestBytes == 2

HashModulus == 65521

HashMultiplier == 251

\* the bytes data[lo..hi] absorbed into the state h one after the other, left
\* to right; the range is split in two so that the evaluation stays shallow
RECURSIVE mix(_, _, _, _)
mix(data, lo, hi, h) ==
    IF lo > hi THEN h
    ELSE IF lo = hi THEN (h * HashMultiplier + data[lo] + 1) % HashModulus
    ELSE LET mid == (lo + hi) \div 2
             left == mix(data, lo, mid, h)
         IN  InOrder(left, mix(data, mid + 1, hi, left))

\* the DigestBytes low-order base-256 digits of h, most significant first
RECURSIVE digest_of(_, _)
digest_of(h, n) ==
    IF n = 0 THEN <<>> ELSE Append(digest_of(h \div 256, n - 1), h % 256)

blake2b(data) == digest_of(mix(data, 1, Len(data), 1), DigestBytes)

shake_256(data, num_bytes) == digest_of(mix(data, 1, Len(data), 2), num_bytes)

\* bytes(n) of Python for an integer n: n zero bytes
ZeroBytes(n) == List([i \in 1..n |-> 0])

(***************************************************************************)
(* merkle.py                                                               *)
(***************************************************************************)
Merkle_H(data) == blake2b(data)

RECURSIVE Merkle__commit_rec(_, _)
Merkle__commit_rec(leafs, depth) ==
    IF depth > RecursionLimit THEN Raise("RecursionError")
    ELSE IF ~AndWithPredIsZero(Len(leafs)) THEN Raise("ValueError")
    ELSE IF Len(leafs) = 1 THEN Ok(leafs[1])
    ELSE LET half == Len(leafs) \div 2
             left == Merkle__commit_rec(Slice(leafs, 0, half), depth + 1)
             right == Merkle__commit_rec(Slice(leafs, half, Len(leafs)), depth + 1)
         IN  IF left.exc # "" THEN left
             ELSE IF right.exc # "" THEN right
             ELSE Ok(Merkle_H(left.val \o right.val))

Merkle__commit(leafs) == Merkle__commit_rec(leafs, 1)

\* [Merkle.H(bytes(da)) for da in data], the data being field elements
Merkle_leafs(data) == List([i \in 1..Len(data) |-> Merkle_H(FieldElement_bytes(data[i]))])

Merkle_commit(data) == Merkle__commit(Merkle_leafs(data))

RECURSIVE Merkle__open_rec(_, _, _)
Merkle__open_rec(index, leafs, depth) ==
    IF depth > RecursionLimit THEN Raise("RecursionError")
    ELSE IF ~AndWithPredIsZero(Len(leafs)) THEN Raise("ValueError")
    ELSE IF index < 0 \/ index >= Len(leafs) THEN Raise("ValueError")
    ELSE IF Len(leafs) = 2 THEN Ok(<<leafs[(1 - index) + 1]>>)
    ELSE LET half == Len(leafs) \div 2
             lower == IF index < half
                      THEN Merkle__open_rec(index, Slice(leafs, 0, half), depth + 1)
                      ELSE Merkle__open_rec(index - half,
                                            Slice(leafs, half, Len(leafs)), depth + 1)
             other == IF index < half
                      THEN Merkle__commit_rec(Slice(leafs, half, Len(leafs)), depth + 1)
                      ELSE Merkle__commit_rec(Slice(leafs, 0, half), depth + 1)
         IN  IF lower.exc # "" THEN lower
             ELSE IF other.exc # "" THEN other
             ELSE Ok(Append(lower.val, other.val))

Merkle__open(index, leafs) == Merkle__open_rec(index, leafs, 1)

Merkle_open(index, data) == Merkle__open(index, Merkle_leafs(data))

RECURSIVE Merkle__verify_rec(_, _, _, _, _)
Merkle__verify_rec(root, index, path, leaf, depth) ==
    IF depth > RecursionLimit THEN RaiseB("RecursionError")
    ELSE IF index < 0 \/ index >= Pow2(Len(path)) THEN RaiseB("ValueError")
    ELSE IF Len(path) = 0 THEN RaiseB("IndexError")
    ELSE LET node == IF index % 2 = 0
                     THEN Merkle_H(leaf \o path[1])
                     ELSE Merkle_H(path[1] \o leaf)
         IN  IF Len(path) = 1 THEN Ok(root = node)
             ELSE InOrder(node, Merkle__verify_rec(root, index \div 2, Tail(path),
                                                   node, depth + 1))

\* a verification that hashes every node as a left child, whatever the index
Merkle__verify_unordered(root, index, path, leaf) ==
    Merkle__verify_rec(root, 0, path, leaf, 1)

Merkle__verify(root, index, path, leaf) ==
    Merkle__verify_rec(root, index, path, leaf, 1)

Merkle_verify(root, index, path, item) ==
    Merkle__verify(root, index, path, Merkle_H(FieldElement_bytes(item)))

(***************************************************************************)
(* ip.py: the ProofStream.  An object of the transcript is a record        *)
(*   tag   "digest" (a Merkle root), "codeword" (a list of field           *)
(*         elements), "element" (one field element), "path" (an            *)
(*         authentication path) or "check" (a ColinearityCheck);           *)
(*   cls   for a check, the class holding its three paths: "MerkleProof"   *)
(*         is the namedtuple fri.py binds to the name MerkleProofs, which  *)
(*         pickle cannot look up by its type name and refuses to dump,     *)
(*         "Codewords" a namedtuple with the same fields a, b, c that      *)
(*         pickle accepts; "" otherwise;                                   *)
(*   ints  the field elements or the digest's bytes;                       *)
(*   paths the authentication paths, each a list of digests.               *)
(***************************************************************************)
DigestObj(d) == [tag |-> "digest", cls |-> "", ints |-> d, paths |-> <<>>]

CodewordObj(c) == [tag |-> "codeword", cls |-> "", ints |-> c, paths |-> <<>>]

ElementObj(v) == [tag |-> "element", cls |-> "", ints |-> <<v>>, paths |-> <<>>]

PathObj(path) == [tag |-> "path", cls |-> "", ints |-> <<>>, paths |-> <<path>>]

\* ColinearityCheck(Codewords(a, b, c), MerkleProofs(pa, pb, pc))
ColinearityCheck(codewords, proofs) ==
    [tag |-> "check", cls |-> "MerkleProof", ints |-> codewords, paths |-> proofs]

Tags == <<"digest", "codeword", "element", "path", "check">>

Classes == <<"", "MerkleProof", "Codewords">>

IndexOf(seq, x) == CHOOSE i \in 1..Len(seq) : seq[i] = x

\* ProofStream.__init__: objects or [], read_index = len(objects)
ProofStream_new(objects) == [objects |-> objects, read_index |-> Len(objects)]

ProofStream_push_front(ps, obj) == [ps EXCEPT !.objects = <<obj>> \o ps.objects]

ProofStream_push(ps, obj) == [ps EXCEPT !.objects = ps.objects \o <<obj>>]

ProofStream_pull_rewinding(ps) ==
    IF ps.read_index >= Len(ps.objects)
    THEN [exc |-> "ValueError", val |-> DigestObj(<<>>),
          ps |-> [ps EXCEPT !.read_index = 0]]
    ELSE [exc |-> "", val |-> ps.objects[ps.read_index + 1],
          ps |-> [ps EXCEPT !.read_index = ps.read_index + 1]]

\* the outcome of pull: the object read (val) and the stream afterwards (ps)
ProofStream_pull(ps) ==
    IF ps.read_index >= Len(ps.objects)
    THEN [exc |-> "ValueError", val |-> DigestObj(<<>>), ps |-> ps]
    ELSE [exc |-> "", val |-> ps.objects[ps.read_index + 1],
          ps |-> [ps EXCEPT !.read_index = ps.read_index + 1]]

\* pickle.dumps: a byte encoding of the object list, each part preceded by
\* its length
RECURSIVE Concat(_, _, _)
Concat(seqs, lo, hi) ==
    IF lo > hi THEN <<>>
    ELSE IF lo = hi THEN seqs[lo]
    ELSE LET mid == (lo + hi) \div 2
         IN  Concat(seqs, lo, mid) \o Concat(seqs, mid + 1, hi)

FlattenSeqs(seqs) ==
    Concat(List([i \in 1..Len(seqs) |-> <<Len(seqs[i])>> \o seqs[i]]), 1, Len(seqs))

DumpPath(path) == <<Len(path)>> \o FlattenSeqs(path)

DumpPaths(paths) ==
    Concat(List([i \in 1..Len(paths) |-> DumpPath(paths[i])]), 1, Len(paths))

DumpObject(obj) ==
    <<IndexOf(Tags, obj.tag), IndexOf(Classes, obj.cls), Len(obj.ints)>> \o obj.ints
        \o <<Len(obj.paths)>> \o DumpPaths(obj.paths)

DumpObjects(objects) ==
    Concat(List([i \in 1..Len(objects) |-> DumpObject(objects[i])]), 1, Len(objects))

pickle_dumps(objects) == <<Len(objects)>> \o DumpObjects(objects)

\* pickle.dumps raises PicklingError on an instance of a class it cannot
\* find under the class's own name: fri.py names the class MerkleProof and
\* binds it to MerkleProofs
DumpsRaises(objects) == \E i \in 1..Len(objects) : objects[i].cls = "MerkleProof"

\* pickle.loads: the parser of that encoding.  Each Load operator returns
\* <<what it read, the position after it>>.
RECURSIVE LoadSeqs(_, _, _, _)
LoadSeqs(bb, pos, count, acc) ==
    IF count = 0 THEN <<acc, pos>>
    ELSE LET next == pos + 1 + bb[pos]
             read == Append(acc, SubSeq(bb, pos + 1, pos + bb[pos]))
         IN  InOrder(<<next, read>>, LoadSeqs(bb, next, count - 1, read))

LoadPath(bb, pos) == LoadSeqs(bb, pos + 1, bb[pos], <<>>)

RECURSIVE LoadPaths(_, _, _, _)
LoadPaths(bb, pos, count, acc) ==
    IF count = 0 THEN <<acc, pos>>
    ELSE LET path == LoadPath(bb, pos)
             read == Append(acc, path[1])
         IN  InOrder(read, LoadPaths(bb, path[2], count - 1, read))

LoadObject(bb, pos) ==
    LET n == bb[pos + 2]
        paths == LoadPaths(bb, pos + 4 + n, bb[pos + 3 + n], <<>>)
    IN  <<[tag |-> Tags[bb[pos]], cls |-> Classes[bb[pos + 1]],
           ints |-> SubSeq(bb, pos + 3, pos + 2 + n), paths |-> paths[1]],
          paths[2]>>

RECURSIVE LoadObjects(_, _, _, _)
LoadObjects(bb, pos, count, acc) ==
    IF count = 0 THEN acc
    ELSE LET obj == LoadObject(bb, pos)
             read == Append(acc, obj[1])
         IN  InOrder(read, LoadObjects(bb, obj[2], count - 1, read))

pickle_loads(bb) == LoadObjects(bb, 2, bb[1], <<>>)

\* ProofStream.serialize(index): index None is the whole list
ProofStream_serialize(ps) == pickle_dumps(ps.objects)

ProofStream_serialize_all(ps, index) == pickle_dumps(ps.objects)

ProofStream_serialize_index(ps, index) == pickle_dumps(Slice(ps.objects, 0, index))

\* the default num_bytes of _fiat_shamir: 32 in the source
NumBytes == 2

ProofStream__fiat_shamir(ps, num_bytes) ==
    shake_256(ProofStream_serialize(ps), num_bytes)

ProofStream__fiat_shamir_index(ps, num_bytes, index) ==
    shake_256(ProofStream_serialize_index(ps, index), num_bytes)

ProofStream_prover_fiat_shamir(ps) == ProofStream__fiat_shamir(ps, NumBytes)

ProofStream_verifier_fiat_shamir(ps) ==
    ProofStream__fiat_shamir_index(ps, NumBytes, ps.read_index)

\* ProofStream.deserialize: an empty stream (read_index 0) given the loaded
\* objects
ProofStream_deserialize(bb) ==
    [ProofStream_new(<<>>) EXCEPT !.objects = pickle_loads(bb)]

(***************************************************************************)
(* fri.py.  A Fri object is the record of its constructor's arguments.     *)
(***************************************************************************)
Fri_new(offset, omega, domain_length, expansion_factor, num_colinearity_tests) ==
    [offset |-> offset, omega |-> omega, domain_length |-> domain_length,
     expansion_factor |-> expansion_factor,
     num_colinearity_tests |-> num_colinearity_tests]

\* math.ceil(math.log2(a / b)) for integers a, b > 0
RECURSIVE CeilLog2Up(_, _, _)
CeilLog2Up(a, b, r) == IF b >= a THEN r ELSE CeilLog2Up(a, 2 * b, r + 1)

RECURSIVE FloorLog2Down(_, _, _)
FloorLog2Down(a, b, s) == IF 2 * a > b THEN s ELSE FloorLog2Down(2 * a, b, s + 1)

CeilLog2Ratio(a, b) ==
    IF a >= b THEN CeilLog2Up(a, b, 0) ELSE 0 - FloorLog2Down(a, b, 0)

Fri_num_rounds(fri) ==
    CeilLog2Ratio(fri.domain_length,
                  Max2(fri.expansion_factor, 4 * fri.num_colinearity_tests))

\* Fri.__init__: the exception it raises, "" when it accepts the arguments
Fri_init_exc(fri) ==
    IF fri.domain_length <= 0
         \/ Max2(fri.expansion_factor, 4 * fri.num_colinearity_tests) <= 0
    THEN "ValueError"  \* math domain error, or ZeroDivisionError
    ELSE IF Fri_num_rounds(fri) < 1 THEN "ValueError"
    ELSE IF FieldElement_pow(fri.omega, fri.domain_length) # 1 THEN "ValueError"
    ELSE IF fri.domain_length <= fri.expansion_factor THEN "ValueError"
    ELSE IF fri.domain_length <= 4 * fri.num_colinearity_tests THEN "ValueError"
    ELSE ""

\* Fri.sample_index: acc = (acc << 8) ^ b over the seed, then acc % size
Fri_sample_index(seed, size) == fold_bytes(seed, 1, 0) % size

\* the iterations the sampling loop is followed for
MaxCounter == 32

RECURSIVE sample_indices_loop(_, _, _, _, _, _, _)
sample_indices_loop(seed, size, reduced_size, number, indices, reduced_indices, counter) ==
    IF Len(indices) >= number THEN Ok(indices)
    ELSE IF counter > MaxCounter THEN Raise("Unfinished")
    ELSE LET index == Fri_sample_index(blake2b(seed \o ZeroBytes(counter)), size)
             reduced_index == index % reduced_size
         IN  IF reduced_index \notin Range(reduced_indices)
             THEN sample_indices_loop(seed, size, reduced_size, number,
                      Append(indices, index), Append(reduced_indices, reduced_index),
                      counter + 1)
             ELSE sample_indices_loop(seed, size, reduced_size, number,
                      indices, reduced_indices, counter + 1)

\* the sampling that keeps an index whatever its residue modulo reduced_size
Fri_sample_indices_unreduced(seed, size, reduced_size, number) ==
    IF number > reduced_size THEN Raise("ValueError")
    ELSE Ok(List([i \in 1..number |->
                Fri_sample_index(blake2b(seed \o ZeroBytes(i - 1)), size)]))

Fri_sample_indices(seed, size, reduced_size, number) ==
    IF number > reduced_size THEN Raise("ValueError")
    ELSE IF number > 2 * reduced_size THEN Raise("ValueError")
    ELSE sample_indices_loop(seed, size, reduced_size, number, <<>>, <<>>, 0)

Fri_domain(fri) ==
    List([i \in 1..fri.domain_length |->
        Field_multiply(fri.offset, FieldElement_pow(fri.omega, i - 1))])

Min2(a, b) == IF a <= b THEN a ELSE b

\* one round of the loop of Fri.commit; the outcome carries the stream (ps)
\* and the codewords so far (val)
RECURSIVE commit_loop(_, _, _, _, _, _)
commit_loop(fri, rounds_left, ps, domain, codeword, codewords) ==
    IF rounds_left = 0 THEN [exc |-> "", val |-> codewords, ps |-> ps]
    ELSE
    LET \* compute weights, split and fold
        fold(ps1, alpha) ==
            LET zipped == Min2(Len(domain), Len(codeword))
                weights == List([i \in 1..zipped |->
                               Field_multiply(Field_add(Field_divide(alpha, domain[i]), 1),
                                              codeword[i])])
                next_domain == EvenStride(domain)
                n == Len(next_domain)
                halves(w) == List([i \in 1..Min2(n, Len(w) - n) |->
                                 Field_divide(Field_add(w[i], w[n + i]), 2)])
                next_codeword == halves(weights)
            IN  IF \E i \in 1..zipped : DivideRaises(domain[i])
                THEN [exc |-> "ValueError", val |-> codewords, ps |-> ps1]
                ELSE InOrder(<<alpha, next_domain, next_codeword>>,
                             commit_loop(fri, rounds_left - 1, ps1, next_domain,
                                         next_codeword, Append(codewords, codeword)))
        \* commit the codeword, get challenge
        challenge(root) ==
            LET ps1 == ProofStream_push(ps, DigestObj(root.val))
            IN  IF root.exc # "" THEN [exc |-> root.exc, val |-> codewords, ps |-> ps]
                ELSE IF DumpsRaises(ps1.objects)
                THEN [exc |-> "PicklingError", val |-> codewords, ps |-> ps1]
                ELSE fold(ps1, Field_sample(ProofStream_prover_fiat_shamir(ps1)))
    IN  challenge(Merkle_commit(codeword))

Fri_commit(fri, codeword, ps) ==
    LET last(done) ==
            IF done.exc # "" THEN done
            ELSE [done EXCEPT !.ps = ProofStream_push(done.ps,
                                        CodewordObj(done.val[Len(done.val)]))]
    IN  IF fri.domain_length # Len(codeword)
        THEN [exc |-> "ValueError", val |-> <<>>, ps |-> ps]
        ELSE last(commit_loop(fri, Fri_num_rounds(fri), ps, Fri_domain(fri),
                              codeword, <<>>))

\* Fri.query: one ColinearityCheck pushed per index, in order
RECURSIVE Fri_query(_, _, _, _, _)
Fri_query(current_codeword, next_codeword, c_indices, s, ps) ==
    IF s > Len(c_indices) THEN [exc |-> "", ps |-> ps]
    ELSE
    LET i == c_indices[s]
        half == Len(current_codeword) \div 2
        push(pa, pb, pc) ==
            LET pushed == ProofStream_push(ps,
                              ColinearityCheck(<<current_codeword[i + 1],
                                                 current_codeword[i + half + 1],
                                                 next_codeword[i + 1]>>,
                                               <<pa.val, pb.val, pc.val>>))
            IN  IF pa.exc # "" THEN [exc |-> pa.exc, ps |-> ps]
                ELSE IF pb.exc # "" THEN [exc |-> pb.exc, ps |-> ps]
                ELSE IF pc.exc # "" THEN [exc |-> pc.exc, ps |-> ps]
                ELSE InOrder(pushed, Fri_query(current_codeword, next_codeword,
                                               c_indices, s + 1, pushed))
    IN  IF i + half >= Len(current_codeword) \/ i >= Len(next_codeword)
        THEN [exc |-> "IndexError", ps |-> ps]
        ELSE push(Merkle_open(i, current_codeword),
                  Merkle_open(i + half, current_codeword),
                  Merkle_open(i, next_codeword))

\* the query loop of Fri.prove over zip(codewords[:-1], codewords[1:])
RECURSIVE prove_loop(_, _, _, _)
prove_loop(codewords, j, indices, ps) ==
    IF j >= Len(codewords) THEN [exc |-> "", ps |-> ps]
    ELSE LET folded == List([s \in 1..Len(indices) |->
                           indices[s] % (Len(codewords[j + 1]) \div 2)])
             next(q) ==
                 IF q.exc # "" THEN q
                 ELSE InOrder(folded, prove_loop(codewords, j + 1, folded, q.ps))
         IN  next(Fri_query(codewords[j], codewords[j + 1], indices, 1, ps))

\* Fri.prove: val is top_level_indices, ps the stream afterwards, codewords
\* what commit returned
\* the arguments Fri.prove calls sample_indices with, once the commit phase
\* is over
Fri_prove_sample_args(fri, committed) ==
    <<ProofStream_prover_fiat_shamir(committed.ps),
      Len(committed.val[1]) \div 2,
      Len(committed.val[Len(committed.val)]),
      fri.num_colinearity_tests>>

Fri_prove(fri, codeword, ps) ==
    LET sampled(a) == Fri_sample_indices(a[1], a[2], a[3], a[4])
        \* query phase
        query_phase(committed, top_level_indices, queried) ==
            IF top_level_indices.exc # ""
            THEN [exc |-> top_level_indices.exc, val |-> <<>>, ps |-> committed.ps,
                  codewords |-> committed.val]
            ELSE [exc |-> queried.exc, val |-> top_level_indices.val,
                  ps |-> queried.ps, codewords |-> committed.val]
        \* get indices
        index_phase(committed, top_level_indices) ==
            query_phase(committed, top_level_indices,
                        prove_loop(committed.val, 1, top_level_indices.val,
                                   committed.ps))
        \* commit phase
        commit_phase(committed) ==
            IF committed.exc # ""
            THEN [exc |-> committed.exc, val |-> <<>>, ps |-> committed.ps,
                  codewords |-> committed.val]
            ELSE IF DumpsRaises(committed.ps.objects)
            THEN [exc |-> "PicklingError", val |-> <<>>, ps |-> committed.ps,
                  codewords |-> committed.val]
            ELSE index_phase(committed, sampled(Fri_prove_sample_args(fri, committed)))
    IN  commit_phase(Fri_commit(fri, codeword, ps))

\* the loop of Fri.verify that pulls the roots and samples the alphas; val
\* is <<roots, alphas>>
RECURSIVE verify_roots_loop(_, _, _, _)
verify_roots_loop(rounds_left, ps, roots, alphas) ==
    IF rounds_left = 0 THEN [exc |-> "", val |-> <<roots, alphas>>, ps |-> ps]
    ELSE LET sample(pulled) ==
                 LET more_roots == Append(roots, pulled.val.ints)
                     more_alphas ==
                         Append(alphas,
                                Field_sample(ProofStream_verifier_fiat_shamir(pulled.ps)))
                 IN  IF pulled.exc # ""
                     THEN [exc |-> pulled.exc, val |-> <<roots, alphas>>, ps |-> ps]
                     ELSE IF DumpsRaises(Slice(pulled.ps.objects, 0,
                                               pulled.ps.read_index))
                     THEN [exc |-> "PicklingError", val |-> <<roots, alphas>>,
                           ps |-> pulled.ps]
                     ELSE InOrder(<<more_roots, more_alphas>>,
                                  verify_roots_loop(rounds_left - 1, pulled.ps,
                                                    more_roots, more_alphas))
         IN  sample(ProofStream_pull(ps))

\* the checks of one pulled ColinearityCheck: the exception raised, "" when
\* all of them pass
ColinearityCheck_exc(check, ax, bx, cx, root, next_root, a_index, b_index, c_index) ==
    LET ay == check.ints[1]
        by == check.ints[2]
        cy == check.ints[3]
        va == Merkle_verify(root, a_index, check.paths[1], ay)
        vb == Merkle_verify(root, b_index, check.paths[2], by)
        vc == Merkle_verify(next_root, c_index, check.paths[3], cy)
    IN  IF InterpolateRaises(<<ax, bx, cx>>) THEN "ValueError"
        ELSE IF ~Polynomial_is_colinear(<<<<ax, ay>>, <<bx, by>>, <<cx, cy>>>>)
        THEN "FriError"
        ELSE IF va.exc # "" THEN va.exc
        ELSE IF ~va.val THEN "FriError"
        ELSE IF vb.exc # "" THEN vb.exc
        ELSE IF ~vb.val THEN "FriError"
        ELSE IF vc.exc # "" THEN vc.exc
        ELSE IF ~vc.val THEN "FriError"
        ELSE ""

\* the inner loop of Fri.verify, over s in range(num_colinearity_tests)
RECURSIVE verify_checks_loop(_, _, _, _, _, _, _, _, _, _, _)
verify_checks_loop(fri, r, s, ps, omega, offset, domain_length, c_indices, roots, alphas, polynomial_values) ==
    IF s > fri.num_colinearity_tests
    THEN [exc |-> "", val |-> polynomial_values, ps |-> ps]
    ELSE
    LET a_index == c_indices[s]
        b_index == c_indices[s] + domain_length \div 2
        record(pulled, failed) ==
            LET recorded == IF r = 0
                            THEN polynomial_values
                                     \o <<<<a_index, pulled.val.ints[1]>>,
                                          <<b_index, pulled.val.ints[2]>>>>
                            ELSE polynomial_values
            IN  IF failed # ""
                THEN [exc |-> failed, val |-> <<>>, ps |-> pulled.ps]
                ELSE InOrder(recorded,
                         verify_checks_loop(fri, r, s + 1, pulled.ps, omega, offset,
                             domain_length, c_indices, roots, alphas, recorded))
        check(pulled) ==
            IF pulled.exc # ""
            THEN [exc |-> pulled.exc, val |-> <<>>, ps |-> ps]
            ELSE record(pulled,
                     ColinearityCheck_exc(pulled.val,
                         Field_multiply(offset, FieldElement_pow(omega, a_index)),
                         Field_multiply(offset, FieldElement_pow(omega, b_index)),
                         alphas[r + 1], roots[r + 1], roots[r + 2],
                         a_index, b_index, c_indices[s]))
    IN  check(ProofStream_pull(ps))

\* the outer loop of Fri.verify, over r in range(0, num_rounds - 1)
RECURSIVE verify_rounds_loop(_, _, _, _, _, _, _, _, _, _)
verify_rounds_loop(fri, r, ps, omega, offset, domain_length, top_level_indices, roots, alphas, polynomial_values) ==
    IF r >= Fri_num_rounds(fri) - 1
    THEN [exc |-> "", val |-> polynomial_values, ps |-> ps]
    ELSE LET c_indices == List([s \in 1..Len(top_level_indices) |->
                              top_level_indices[s] % (domain_length \div 2)])
             next_omega == FieldElement_pow(omega, 2)
             next_offset == FieldElement_pow(offset, 2)
             next(checked) ==
                 IF checked.exc # "" THEN checked
                 ELSE InOrder(<<next_omega, next_offset>>,
                          verify_rounds_loop(fri, r + 1, checked.ps,
                              next_omega, next_offset, domain_length \div 2,
                              top_level_indices, roots, alphas, checked.val))
         IN  next(verify_checks_loop(fri, r, 1, ps, omega, offset, domain_length,
                                     c_indices, roots, alphas, polynomial_values))

\* Fri.verify: val is polynomial_values, a list of <<index, value>>, ps the
\* stream afterwards
\* the arguments Fri.verify calls sample_indices with, once it has pulled
\* the roots and the last codeword
Fri_verify_sample_args(fri, ps) ==
    <<ProofStream_verifier_fiat_shamir(ps),
      fri.domain_length \div 2,
      fri.domain_length \div Pow2(Fri_num_rounds(fri) - 1),
      fri.num_colinearity_tests>>

Fri_verify(fri, proof_stream) ==
    LET num_rounds == Fri_num_rounds(fri)
        sampled(a) == Fri_sample_indices(a[1], a[2], a[3], a[4])
        fails(e, ps) == [exc |-> e, val |-> <<>>, ps |-> ps]
        \* unwind the query loop
        query_phase(roots, alphas, ps, top_level_indices) ==
            IF top_level_indices.exc # "" THEN fails(top_level_indices.exc, ps)
            ELSE verify_rounds_loop(fri, 0, ps, fri.omega, fri.offset,
                     fri.domain_length, top_level_indices.val, roots, alphas, <<>>)
        \* compute the interpolant, check that it is low degree, get indices
        degree_phase(roots, alphas, ps, last_codeword, last_domain) ==
            IF InterpolateRaises(last_domain) THEN fails("ValueError", ps)
            ELSE IF Polynomial_degree(Polynomial_interpolate(last_domain, last_codeword))
                        > (Len(last_codeword) \div fri.expansion_factor) - 1
            THEN fails("FriError", ps)
            ELSE IF DumpsRaises(Slice(ps.objects, 0, ps.read_index))
            THEN fails("PicklingError", ps)
            ELSE query_phase(roots, alphas, ps, sampled(Fri_verify_sample_args(fri, ps)))
        \* assert that last_omega has the right order
        order_phase(roots, alphas, ps, last_codeword, last_omega, last_offset) ==
            IF FieldElement_pow(last_omega, Len(last_codeword)) # 1
            THEN fails("FriError", ps)
            ELSE degree_phase(roots, alphas, ps, last_codeword,
                     List([i \in 1..Len(last_codeword) |->
                         Field_multiply(last_offset,
                                        FieldElement_pow(last_omega, i - 1))]))
        \* check if the last codeword matches the given root
        root_phase(roots, alphas, ps, last_codeword, last_root) ==
            IF last_root.exc # "" THEN fails(last_root.exc, ps)
            ELSE IF roots[Len(roots)] # last_root.val THEN fails("FriError", ps)
            ELSE order_phase(roots, alphas, ps, last_codeword,
                     FieldElement_pow(fri.omega, Pow2(num_rounds - 1)),
                     FieldElement_pow(fri.offset, Pow2(num_rounds - 1)))
        last_phase(unwound, pulled) ==
            IF pulled.exc # "" THEN fails(pulled.exc, unwound.ps)
            ELSE root_phase(unwound.val[1], unwound.val[2], pulled.ps,
                            pulled.val.ints, Merkle_commit(pulled.val.ints))
        \* unwind commit
        commit_phase(unwound) ==
            IF unwound.exc # "" THEN fails(unwound.exc, unwound.ps)
            ELSE last_phase(unwound, ProofStream_pull(unwound.ps))
    IN  commit_phase(verify_roots_loop(num_rounds, proof_stream, <<>>, <<>>))

(***************************************************************************)
(* univariate.py: the operations the fast arithmetic and the STARK use.    *)
(***************************************************************************)
\* the scaled coefficients kept as they are, trailing zeros included
Polynomial_scale_untrimmed(p, factor) ==
    List([i \in 1..Len(p) |-> Field_multiply(p[i], FieldElement_pow(factor, i - 1))])

\* Polynomial.scale: coefficient i times factor^i
Polynomial_scale(p, factor) ==
    Polynomial_new(List([i \in 1..Len(p) |->
        Field_multiply(p[i], FieldElement_pow(factor, i - 1))]))

\* the loop of Polynomial.__pow__ over bin(exponent)[2:]: acc = acc * acc,
\* and acc = acc * self where the character is "1"
RECURSIVE Polynomial_pow_loop(_, _, _, _)
Polynomial_pow_loop(acc, self, bits, i) ==
    IF i > Len(bits) THEN Polynomial_trim(acc)
    ELSE LET step(sq) == IF bits[i] = 1 THEN Polynomial_mul(sq, self) ELSE sq
             loop(next) == InOrder(next, Polynomial_pow_loop(next, self, bits, i + 1))
         IN  loop(step(Polynomial_mul(acc, acc)))

Polynomial_pow(self, exponent) ==
    IF Len(self) = 0 THEN <<>>
    ELSE IF exponent = 0 THEN <<1>>
    ELSE Polynomial_pow_loop(<<1>>, self, Bin(exponent), 1)

\* Polynomial.zerofier_domain raises IndexError on an empty domain (it reads
\* domain[0].field)
ZerofierDomainRaises(domain) == Len(domain) = 0

\* acc *= x - Polynomial([d]) for d in domain
Polynomial_zerofier_domain(domain) ==
    Polynomial_trim(
        Polynomial_product(
            List([i \in 1..Len(domain) |->
                Polynomial_sub(<<0, 1>>, Polynomial_new(<<domain[i]>>))]),
            1, Len(domain)))

(***************************************************************************)
(* ntt.py.  Each operator returns an outcome: exc is the exception raised  *)
(* ("" if none) and val the value returned.                                *)
(***************************************************************************)
\* the check every fast_ function starts with: "" or ValueError
RootCheck(primitive_root, root_order) ==
    IF FieldElement_pow(primitive_root, root_order) # 1 THEN "ValueError"
    ELSE IF FieldElement_pow(primitive_root, root_order \div 2) = 1 THEN "ValueError"
    ELSE ""

\* coefficients + [zero] * (order - length): no padding for a count <= 0
Padded(coefficients, length, order) ==
    coefficients \o List([i \in 1..(order - length) |-> 0])

RECURSIVE ntt(_, _)
ntt(primitive_root, coefficients) ==
    LET n == Len(coefficients)
        half == n \div 2
        combine(evens, odds) ==
            IF evens.exc # "" THEN evens
            ELSE IF odds.exc # "" THEN odds
            ELSE Ok(List([i \in 1..n |->
                     Field_add(evens.val[((i - 1) % half) + 1],
                               Field_multiply(FieldElement_pow(primitive_root, i - 1),
                                              odds.val[((i - 1) % half) + 1]))]))
    IN  IF ~AndWithPredIsZero(n) THEN Raise("ValueError")
        ELSE IF n <= 1 THEN Ok(coefficients)
        ELSE IF FieldElement_pow(primitive_root, n) # 1 THEN Raise("ValueError")
        ELSE IF FieldElement_pow(primitive_root, half) = 1 THEN Raise("ValueError")
        ELSE combine(ntt(FieldElement_pow(primitive_root, 2), EvenStride(coefficients)),
                     ntt(FieldElement_pow(primitive_root, 2), OddStride(coefficients)))

\* an inverse transform that does not divide by the length
intt_unscaled(primitive_root, values) ==
    IF DivideRaises(primitive_root) THEN Raise("ValueError")
    ELSE ntt(Field_divide(1, primitive_root), values)

\* intt: values[0] of an empty list raises IndexError, 1 / primitive_root
\* and tv / n raise ValueError on a zero divisor
intt(primitive_root, values) ==
    LET n == Len(values)
        scaled(transformed_values) ==
            IF transformed_values.exc # "" THEN transformed_values
            ELSE IF DivideRaises(n) THEN Raise("ValueError")
            ELSE Ok(List([i \in 1..n |-> Field_divide(transformed_values.val[i], n)]))
    IN  IF ~AndWithPredIsZero(n) THEN Raise("ValueError")
        ELSE IF n = 1 THEN Ok(values)
        ELSE IF n = 0 THEN Raise("IndexError")
        ELSE IF DivideRaises(primitive_root) THEN Raise("ValueError")
        ELSE scaled(ntt(Field_divide(1, primitive_root), values))

\* while degree < order // 2: root = root**2; order = order // 2
RECURSIVE reduce_root(_, _, _)
reduce_root(root, order, degree) ==
    IF degree < order \div 2
    THEN reduce_root(FieldElement_pow(root, 2), order \div 2, degree)
    ELSE <<root, order>>

fast_multiply(lhs, rhs, primitive_root, root_order) ==
    LET degree == Polynomial_degree(lhs) + Polynomial_degree(rhs)
        trimmed(product_coefficients) ==
            IF product_coefficients.exc # "" THEN product_coefficients
            ELSE Ok(Polynomial_new(product_coefficients.val))
        hadamard(root, lhs_codeword, rhs_codeword) ==
            IF lhs_codeword.exc # "" THEN lhs_codeword
            ELSE IF rhs_codeword.exc # "" THEN rhs_codeword
            ELSE trimmed(intt(root,
                     List([i \in 1..Min2(Len(lhs_codeword.val), Len(rhs_codeword.val)) |->
                         Field_multiply(lhs_codeword.val[i], rhs_codeword.val[i])])))
        transform(reduced) ==
            hadamard(reduced[1],
                     ntt(reduced[1], Padded(lhs, Len(lhs), reduced[2])),
                     ntt(reduced[1], Padded(rhs, Len(rhs), reduced[2])))
    IN  IF RootCheck(primitive_root, root_order) # "" THEN Raise("ValueError")
        ELSE IF root_order <= degree THEN Raise("ValueError")
        ELSE IF Len(lhs) = 0 \/ Len(rhs) = 0 THEN Ok(<<>>)
        ELSE IF degree < 8 THEN Ok(Polynomial_mul(lhs, rhs))
        ELSE transform(reduce_root(primitive_root, root_order, degree))

RECURSIVE fast_zerofier(_, _, _)
fast_zerofier(domain, primitive_root, root_order) ==
    LET half == Len(domain) \div 2
        product(left, right) ==
            IF left.exc # "" THEN left
            ELSE IF right.exc # "" THEN right
            ELSE fast_multiply(left.val, right.val, primitive_root, root_order)
    IN  IF RootCheck(primitive_root, root_order) # "" THEN Raise("ValueError")
        ELSE IF Len(domain) = 0 THEN Ok(<<>>)
        ELSE IF Len(domain) = 1
        THEN Ok(Polynomial_new(<<Field_negate(domain[1]), 1>>))
        ELSE product(fast_zerofier(Slice(domain, 0, half), primitive_root, root_order),
                     fast_zerofier(Slice(domain, half, Len(domain)), primitive_root,
                                   root_order))

\* polynomial % zerofier raises ValueError for the zero polynomial as zerofier
RECURSIVE fast_evaluate(_, _, _, _)
fast_evaluate(polynomial, domain, primitive_root, root_order) ==
    LET half == Len(domain) \div 2
        joined(left, right) ==
            IF left.exc # "" THEN left
            ELSE IF right.exc # "" THEN right
            ELSE Ok(left.val \o right.val)
        halves(left_zerofier, right_zerofier) ==
            IF left_zerofier.exc # "" THEN left_zerofier
            ELSE IF right_zerofier.exc # "" THEN right_zerofier
            ELSE IF Len(left_zerofier.val) = 0 \/ Len(right_zerofier.val) = 0
            THEN Raise("ValueError")
            ELSE joined(fast_evaluate(Polynomial_mod(polynomial, left_zerofier.val),
                                      Slice(domain, 0, half), primitive_root, root_order),
                        fast_evaluate(Polynomial_mod(polynomial, right_zerofier.val),
                                      Slice(domain, half, Len(domain)), primitive_root,
                                      root_order))
    IN  IF RootCheck(primitive_root, root_order) # "" THEN Raise("ValueError")
        ELSE IF Len(domain) = 0 THEN Ok(<<>>)
        ELSE IF Len(domain) = 1 THEN Ok(<<Polynomial_evaluate(polynomial, domain[1])>>)
        ELSE halves(fast_zerofier(Slice(domain, 0, half), primitive_root, root_order),
                    fast_zerofier(Slice(domain, half, Len(domain)), primitive_root,
                                  root_order))

\* [v / d for (v, d) in zip(values, offset)]: ValueError on a zero offset
Targets(values, offset) ==
    IF \E i \in 1..Min2(Len(values), Len(offset)) : DivideRaises(offset[i])
    THEN Raise("ValueError")
    ELSE Ok(List([i \in 1..Min2(Len(values), Len(offset)) |->
                Field_divide(values[i], offset[i])]))

RECURSIVE fast_interpolate(_, _, _, _)
fast_interpolate(domain, values, primitive_root, root_order) ==
    LET half == Len(domain) \div 2
        left_domain == Slice(domain, 0, half)
        right_domain == Slice(domain, half, Len(domain))
        sum(left_zerofier, right_zerofier, left_interpolant, right_interpolant) ==
            IF left_interpolant.exc # "" THEN left_interpolant
            ELSE IF right_interpolant.exc # "" THEN right_interpolant
            ELSE Ok(Polynomial_add(Polynomial_mul(left_interpolant.val, right_zerofier),
                                   Polynomial_mul(right_interpolant.val, left_zerofier)))
        interpolants(left_zerofier, right_zerofier, left_targets, right_targets) ==
            IF left_targets.exc # "" THEN left_targets
            ELSE IF right_targets.exc # "" THEN right_targets
            ELSE sum(left_zerofier, right_zerofier,
                     fast_interpolate(left_domain, left_targets.val, primitive_root,
                                      root_order),
                     fast_interpolate(right_domain, right_targets.val, primitive_root,
                                      root_order))
        targets(left_zerofier, right_zerofier, left_offset, right_offset) ==
            IF left_offset.exc # "" THEN left_offset
            ELSE IF right_offset.exc # "" THEN right_offset
            ELSE interpolants(left_zerofier, right_zerofier,
                     Targets(Slice(values, 0, half), left_offset.val),
                     Targets(Slice(values, half, Len(values)), right_offset.val))
        offsets(left_zerofier, right_zerofier) ==
            IF left_zerofier.exc # "" THEN left_zerofier
            ELSE IF right_zerofier.exc # "" THEN right_zerofier
            ELSE targets(left_zerofier.val, right_zerofier.val,
                     fast_evaluate(right_zerofier.val, left_domain, primitive_root,
                                   root_order),
                     fast_evaluate(left_zerofier.val, right_domain, primitive_root,
                                   root_order))
    IN  IF RootCheck(primitive_root, root_order) # "" THEN Raise("ValueError")
        ELSE IF Len(domain) # Len(values) THEN Raise("ValueError")
        ELSE IF \E i, j \in 1..Len(domain) : i # j /\ domain[i] = domain[j]
        THEN Raise("ValueError")
        ELSE IF Len(domain) = 0 THEN Ok(<<>>)
        ELSE IF Len(domain) = 1 THEN Ok(Polynomial_new(<<values[1]>>))
        ELSE offsets(fast_zerofier(left_domain, primitive_root, root_order),
                     fast_zerofier(right_domain, primitive_root, root_order))

fast_coset_evaluate(polynomial, offset, generator, order) ==
    IF RootCheck(generator, order) # "" THEN Raise("ValueError")
    ELSE ntt(generator,
             Padded(Polynomial_scale(polynomial, offset), Len(polynomial), order))

\* lhs / rhs on the small-degree path: AssertionError unless the division is
\* exact
fast_coset_divide(lhs, rhs, offset, primitive_root, root_order) ==
    LET degree == Max2(Polynomial_degree(lhs), Polynomial_degree(rhs))
        unscaled(scaled_quotient_coefficients) ==
            IF scaled_quotient_coefficients.exc # "" THEN scaled_quotient_coefficients
            ELSE IF DivideRaises(offset) THEN Raise("ValueError")
            ELSE Ok(Polynomial_scale(
                     Polynomial_new(Slice(scaled_quotient_coefficients.val, 0,
                         Min2(Len(scaled_quotient_coefficients.val),
                              Polynomial_degree(lhs) - Polynomial_degree(rhs) + 1))),
                     Field_divide(1, offset)))
        quotient(root, lhs_codeword, rhs_codeword) ==
            IF lhs_codeword.exc # "" THEN lhs_codeword
            ELSE IF rhs_codeword.exc # "" THEN rhs_codeword
            ELSE IF \E i \in 1..Min2(Len(lhs_codeword.val), Len(rhs_codeword.val)) :
                        DivideRaises(rhs_codeword.val[i])
            THEN Raise("ValueError")
            ELSE unscaled(intt(root,
                     List([i \in 1..Min2(Len(lhs_codeword.val), Len(rhs_codeword.val)) |->
                         Field_divide(lhs_codeword.val[i], rhs_codeword.val[i])])))
        transform(reduced) ==
            quotient(reduced[1],
                     ntt(reduced[1], Padded(Polynomial_scale(lhs, offset), Len(lhs),
                                            reduced[2])),
                     ntt(reduced[1], Padded(Polynomial_scale(rhs, offset), Len(rhs),
                                            reduced[2])))
    IN  IF RootCheck(primitive_root, root_order) # "" THEN Raise("ValueError")
        ELSE IF Len(rhs) = 0 THEN Raise("ValueError")
        ELSE IF Len(lhs) = 0 THEN Ok(<<>>)
        ELSE IF Polynomial_degree(rhs) > Polynomial_degree(lhs) THEN Raise("ValueError")
        ELSE IF degree < 8
        THEN IF TruedivRaises(lhs, rhs) THEN Raise("AssertionError")
             ELSE Ok(Polynomial_truediv(lhs, rhs))
        ELSE transform(reduce_root(primitive_root, root_order, degree))

(***************************************************************************)
(* multivariate.py.  An MPolynomial is the list of the items of its        *)
(* dictionary, each <<exponent vector, coefficient>>, in insertion order.  *)
(***************************************************************************)
MPolynomial_num_variables(f) == IF Len(f) = 0 THEN 0 ELSE Len(f[1][1])

\* the product of a list of field elements, the list split in two
RECURSIVE Field_product(_, _, _)
Field_product(s, lo, hi) ==
    IF lo > hi THEN 1
    ELSE IF lo = hi THEN s[lo] % P
    ELSE LET mid == (lo + hi) \div 2
         IN  Field_multiply(Field_product(s, lo, mid), Field_product(s, mid + 1, hi))

\* MPolynomial.evaluate: acc is the sum over the items of v times the
\* point[i] ** k[i]
MPolynomial_evaluate(f, point) ==
    LET prod(item) ==
            Field_multiply(item[2],
                Field_product(List([i \in 1..Len(item[1]) |->
                                  FieldElement_pow(point[i], item[1][i])]),
                              1, Len(item[1])))
    IN  IF Len(point) # MPolynomial_num_variables(f) THEN Raise("ValueError")
        ELSE IF Len(point) = 0 THEN Raise("ValueError")
        ELSE Ok(Field_sum(List([n \in 1..Len(f) |-> prod(f[n])]), 1, Len(f)))

\* MPolynomial.evaluate_symbolic: the same sum over polynomials; point[i]
\* raises IndexError when an exponent vector is longer than the point
MPolynomial_evaluate_symbolic(f, point) ==
    LET prod(item) ==
            Polynomial_mul(Polynomial_new(<<item[2]>>),
                Polynomial_product(List([i \in 1..Len(item[1]) |->
                                       Polynomial_pow(point[i], item[1][i])]),
                                   1, Len(item[1])))
    IN  IF \E n \in 1..Len(f) : Len(f[n][1]) > Len(point) THEN Raise("IndexError")
        ELSE Ok(Polynomial_sum(List([n \in 1..Len(f) |-> prod(f[n])]), 1, Len(f)))

\* self == 0: an empty dictionary, or the keys {(0,)} with the value 0
MPolynomial_is_zero(f) ==
    \/ Len(f) = 0
    \/ Len(f) = 1 /\ f[1][1] = <<0>> /\ f[1][2] = 0

MPolynomial_neg(f) == List([n \in 1..Len(f) |-> <<f[n][1], Field_negate(f[n][2])>>])

NonZeroItem(item) == item[2] # 0

\* MPolynomial.trim: the items whose coefficient is not zero
MPolynomial_trim(f) == SelectSeq(f, NonZeroItem)

\* list(k) + [0] * (num_variables - len(k))
PadExponent(k, num_variables) ==
    List([i \in 1..Max2(Len(k), num_variables) |-> IF i <= Len(k) THEN k[i] ELSE 0])

\* dictionary[k] = dictionary[k] + v if k is a key, dictionary[k] = v
\* otherwise: a key that is there keeps its place, a new one goes last
Accumulate(dictionary, k, v) ==
    IF \E n \in 1..Len(dictionary) : dictionary[n][1] = k
    THEN List([n \in 1..Len(dictionary) |->
             IF dictionary[n][1] = k
             THEN <<k, Field_add(dictionary[n][2], v)>>
             ELSE dictionary[n]])
    ELSE Append(dictionary, <<k, v>>)

\* Accumulate for the items from the n-th on, in order
RECURSIVE AccumulateAll(_, _, _)
AccumulateAll(dictionary, items, n) ==
    IF n > Len(items) THEN dictionary
    ELSE LET next == Accumulate(dictionary, items[n][1], items[n][2])
         IN  InOrder(next, AccumulateAll(next, items, n + 1))

\* MPolynomial.__add__ on two polynomials
MPolynomial_add(self, other) ==
    IF MPolynomial_is_zero(self) THEN other
    ELSE IF MPolynomial_is_zero(other) THEN self
    ELSE LET num_variables == Max2(MPolynomial_num_variables(self),
                                   MPolynomial_num_variables(other))
             padded(f) == List([n \in 1..Len(f) |->
                              <<PadExponent(f[n][1], num_variables), f[n][2]>>])
         IN  MPolynomial_trim(AccumulateAll(padded(self), padded(other), 1))

\* MPolynomial.__mul__ on two polynomials: the products of the items, k0 in
\* the outer loop and k1 in the inner one
MPolynomial_mul(self, other) ==
    IF MPolynomial_is_zero(self) \/ MPolynomial_is_zero(other) THEN <<>>
    ELSE LET num_variables == Max2(MPolynomial_num_variables(self),
                                   MPolynomial_num_variables(other))
             exponent(k0, k1) ==
                 List([i \in 1..num_variables |->
                     (IF i <= Len(k0) THEN k0[i] ELSE 0) + (IF i <= Len(k1) THEN k1[i] ELSE 0)])
             products ==
                 List([n \in 1..(Len(self) * Len(other)) |->
                     LET item0 == self[((n - 1) \div Len(other)) + 1]
                         item1 == other[((n - 1) % Len(other)) + 1]
                     IN  <<exponent(item0[1], item1[1]), Field_multiply(item0[2], item1[2])>>])
         IN  MPolynomial_trim(AccumulateAll(<<>>, products, 1))

\* MPolynomial.lift: the coefficient of x^i goes under (0,) * variable_index + (i,)
MPolynomial_lift(polynomial, variable_index) ==
    IF Len(polynomial) = 0 THEN <<>>
    ELSE List([n \in 1..Len(polynomial) |->
             <<List([i \in 1..(variable_index + 1) |->
                       IF i = variable_index + 1 THEN n - 1 ELSE 0]),
               polynomial[n]>>])

(***************************************************************************)
(* fast_stark.py.  A FastStark object is the record of the attributes its  *)
(* constructor sets.  A transition constraint is an MPolynomial, a         *)
(* boundary constraint a triple <<cycle, register, value>>, both counted   *)
(* from 0 as in the source.                                                *)
(***************************************************************************)
\* math.ceil(math.log2(field.p))
FieldBits == CeilLog2Up(P, 1, 0)

\* FastStark.__init__: the exception it raises, "" when it accepts
FastStark_init_exc(expansion_factor, num_colinearity_checks, security_level, num_registers, num_cycles, transition_constraints_degree) ==
    LET randomized_trace_length == num_cycles + 4 * num_colinearity_checks
        omicron_domain_length ==
            Pow2(CeilLog2Up(randomized_trace_length * transition_constraints_degree, 1, 0))
        fri_domain_length == omicron_domain_length * expansion_factor
    IN  IF FieldBits < security_level THEN "ValueError"
        ELSE IF ~AndWithPredIsZero(expansion_factor) THEN "ValueError"
        ELSE IF expansion_factor < 4 THEN "ValueError"
        ELSE IF num_colinearity_checks * 2 < security_level THEN "ValueError"
        ELSE IF randomized_trace_length * transition_constraints_degree <= 0
        THEN "ValueError"  \* math domain error
        ELSE IF NthRootRaises(fri_domain_length) THEN "ValueError"
        ELSE Fri_init_exc(Fri_new(Field_generator,
                                  Field_primitive_nth_root(fri_domain_length),
                                  fri_domain_length, expansion_factor,
                                  num_colinearity_checks))

FastStark_new(expansion_factor, num_colinearity_checks, security_level, num_registers, num_cycles, transition_constraints_degree) ==
    LET randomized_trace_length == num_cycles + 4 * num_colinearity_checks
        omicron_domain_length ==
            Pow2(CeilLog2Up(randomized_trace_length * transition_constraints_degree, 1, 0))
        fri_domain_length == omicron_domain_length * expansion_factor
        domain(omicron) ==
            List([i \in 1..omicron_domain_length |-> FieldElement_pow(omicron, i - 1)])
        object(omega, omicron) ==
            [expansion_factor |-> expansion_factor,
             num_colinearity_checks |-> num_colinearity_checks,
             security_level |-> security_level,
             num_randomizers |-> 4 * num_colinearity_checks,
             num_registers |-> num_registers,
             original_trace_length |-> num_cycles,
             randomized_trace_length |-> randomized_trace_length,
             omicron_domain_length |-> omicron_domain_length,
             fri_domain_length |-> fri_domain_length,
             generator |-> Field_generator,
             omega |-> omega,
             omicron |-> omicron,
             omicron_domain |-> domain(omicron),
             fri |-> Fri_new(Field_generator, omega, fri_domain_length,
                             expansion_factor, num_colinearity_checks)]
    IN  object(Field_primitive_nth_root(fri_domain_length),
               Field_primitive_nth_root(omicron_domain_length))

\* the end of the slice s[:n] of Python in a list of the given length
SliceEnd(n, length) == IF n < 0 THEN Max2(length + n, 0) ELSE Min2(n, length)

\* FastStark.preprocess: val is <<transition_zerofier,
\* transition_zerofier_codeword, transition_zerofier_root>>
FastStark_preprocess(stark) ==
    LET committed(transition_zerofier, codeword, root) ==
            IF root.exc # "" THEN root
            ELSE Ok(<<transition_zerofier, codeword, root.val>>)
        evaluated(transition_zerofier, codeword) ==
            IF codeword.exc # "" THEN codeword
            ELSE committed(transition_zerofier, codeword.val, Merkle_commit(codeword.val))
        zerofier(transition_zerofier) ==
            IF transition_zerofier.exc # "" THEN transition_zerofier
            ELSE evaluated(transition_zerofier.val,
                     fast_coset_evaluate(transition_zerofier.val, stark.generator,
                                         stark.omega, stark.fri.domain_length))
    IN  zerofier(fast_zerofier(
            Slice(stark.omicron_domain, 0,
                  SliceEnd(stark.original_trace_length - 1, Len(stark.omicron_domain))),
            stark.omicron, Len(stark.omicron_domain)))

\* max() of a non-empty list of integers
MaxOf(s) == CHOOSE m \in Range(s) : \A x \in Range(s) : x <= m

\* sum(r * l for r, l in zip(point_degrees, k))
WeightedDegree(point_degrees, k) ==
    LET n == Min2(Len(point_degrees), Len(k))
        RECURSIVE total(_)
        total(i) == IF i > n THEN 0 ELSE point_degrees[i] * k[i] + total(i + 1)
    IN  total(1)

\* max() raises ValueError on a constraint with an empty dictionary
DegreeBoundsRaise(transition_constraints) ==
    \E n \in 1..Len(transition_constraints) : Len(transition_constraints[n]) = 0

FastStark_transition_degree_bounds(stark, transition_constraints) ==
    LET point_degrees ==
            <<1>> \o List([i \in 1..(2 * stark.num_registers) |->
                         stark.original_trace_length + stark.num_randomizers - 1])
        bound(a) == MaxOf(List([n \in 1..Len(a) |-> WeightedDegree(point_degrees, a[n][1])]))
    IN  List([n \in 1..Len(transition_constraints) |-> bound(transition_constraints[n])])

FastStark_transition_quotient_degree_bounds(stark, transition_constraints) ==
    LET shifted(bounds) ==
            List([n \in 1..Len(bounds) |-> bounds[n] - (stark.original_trace_length - 1)])
    IN  shifted(FastStark_transition_degree_bounds(stark, transition_constraints))

\* max() raises ValueError on an empty list of constraints as well
MaxDegreeRaises(transition_constraints) ==
    Len(transition_constraints) = 0 \/ DegreeBoundsRaise(transition_constraints)

FastStark_max_degree(stark, transition_constraints) ==
    LET rounded(md) == Pow2(Len(Bin(md))) - 1
    IN  rounded(MaxOf(FastStark_transition_quotient_degree_bounds(stark,
                                                                  transition_constraints)))

\* the boundary constraints on register s
OnRegister(boundary_constraints, s) ==
    SelectSeq(boundary_constraints, LAMBDA b : b[2] = s)

\* [self.omicron**c for c, r, v in boundary_constraints if r == s]
BoundaryPoints(stark, boundary_constraints, s) ==
    LET points(constraints) ==
            List([n \in 1..Len(constraints) |->
                FieldElement_pow(stark.omicron, constraints[n][1])])
    IN  points(OnRegister(boundary_constraints, s))

BoundaryValues(boundary_constraints, s) ==
    LET values(constraints) == List([n \in 1..Len(constraints) |-> constraints[n][3]])
    IN  values(OnRegister(boundary_constraints, s))

\* boundary_zerofiers raises IndexError when a register has no constraint
BoundaryZerofiersRaise(stark, boundary_constraints) ==
    \E s \in 0..(stark.num_registers - 1) :
        ZerofierDomainRaises(OnRegister(boundary_constraints, s))

FastStark_boundary_zerofiers(stark, boundary_constraints) ==
    List([s \in 1..stark.num_registers |->
        Polynomial_zerofier_domain(BoundaryPoints(stark, boundary_constraints, s - 1))])

\* boundary_interpolants raises ValueError when a register has no
\* constraint or two constraints on the same cycle
BoundaryInterpolantsRaise(stark, boundary_constraints) ==
    \E s \in 0..(stark.num_registers - 1) :
        InterpolateRaises(BoundaryPoints(stark, boundary_constraints, s))

FastStark_boundary_interpolants(stark, boundary_constraints) ==
    List([s \in 1..stark.num_registers |->
        Polynomial_interpolate(BoundaryPoints(stark, boundary_constraints, s - 1),
                               BoundaryValues(boundary_constraints, s - 1))])

FastStark_boundary_quotient_degree_bounds(stark, randomized_trace_length, boundary_constraints) ==
    LET randomized_trace_degree == randomized_trace_length - 1
        bounds(zerofiers) ==
            List([s \in 1..Len(zerofiers) |->
                randomized_trace_degree - Polynomial_degree(zerofiers[s])])
    IN  bounds(FastStark_boundary_zerofiers(stark, boundary_constraints))

\* sample_weights: bytes(i) is i zero bytes
FastStark_sample_weights(number, randomness) ==
    List([i \in 1..number |-> Field_sample(blake2b(randomness \o ZeroBytes(i - 1)))])

\* the first exception in a list of outcomes, "" when there is none
FirstExc(outcomes) ==
    IF \A i \in 1..Len(outcomes) : outcomes[i].exc = "" THEN ""
    ELSE outcomes[CHOOSE i \in 1..Len(outcomes) :
                      /\ outcomes[i].exc # ""
                      /\ \A j \in 1..(i - 1) : outcomes[j].exc = ""].exc

Vals(outcomes) == List([i \in 1..Len(outcomes) |-> outcomes[i].val])

\* list.sort(key=...): the elements by increasing key, equal keys in their
\* original order
SortedBy(s, Key(_)) ==
    LET n == Len(s)
        rank(i) ==
            Cardinality({j \in 1..n : \/ Key(s[j]) < Key(s[i])
                                      \/ Key(s[j]) = Key(s[i]) /\ j < i}) + 1
    IN  List([r \in 1..n |-> s[CHOOSE i \in 1..n : rank(i) = r]])

\* os.urandom(17): the bytes of the draw-th call, one of the outcomes the
\* operating system can produce, selected by seed
os_urandom(seed, draw) == ZeroBytes(16) \o <<(seed * draw) % 256>>

\* trace + [[sample(os.urandom(17)) for each register]] for each randomizer
RandomizedTrace(stark, trace, seed) ==
    trace \o List([c \in 1..stark.num_randomizers |->
                List([s \in 1..stark.num_registers |->
                    Field_sample(os_urandom(seed, (c - 1) * stark.num_registers + s))])])

\* a division of the boundary quotients that drops the remainder instead of
\* asserting that it is zero
BoundaryQuotients_unchecked(stark, trace_polynomials, boundary_constraints) ==
    Ok(List([s \in 1..stark.num_registers |->
           Polynomial_truediv(
               Polynomial_sub(trace_polynomials[s],
                   FastStark_boundary_interpolants(stark, boundary_constraints)[s]),
               FastStark_boundary_zerofiers(stark, boundary_constraints)[s])]))

\* the boundary quotients (trace_polynomials[s] - interpolant) / zerofier;
\* the interpolants and zerofiers of all registers are computed first
BoundaryQuotients(stark, trace_polynomials, boundary_constraints) ==
    LET divided(interpolants, zerofiers) ==
            IF \E s \in 1..stark.num_registers :
                   TruedivRaises(Polynomial_sub(trace_polynomials[s], interpolants[s]),
                                 zerofiers[s])
            THEN Raise("AssertionError")
            ELSE Ok(List([s \in 1..stark.num_registers |->
                        Polynomial_truediv(
                            Polynomial_sub(trace_polynomials[s], interpolants[s]),
                            zerofiers[s])]))
    IN  IF stark.num_registers <= 0 THEN Ok(<<>>)
        ELSE IF BoundaryInterpolantsRaise(stark, boundary_constraints)
        THEN Raise("ValueError")
        ELSE IF BoundaryZerofiersRaise(stark, boundary_constraints)
        THEN Raise("IndexError")
        ELSE divided(FastStark_boundary_interpolants(stark, boundary_constraints),
                     FastStark_boundary_zerofiers(stark, boundary_constraints))

\* the loop that commits to the boundary quotients: val is the codewords
RECURSIVE commit_quotients(_, _, _, _, _)
commit_quotients(stark, boundary_quotients, s, codewords, ps) ==
    IF s > Len(boundary_quotients) THEN [exc |-> "", val |-> codewords, ps |-> ps]
    ELSE
    LET pushed(codeword, root) ==
            IF root.exc # "" THEN [exc |-> root.exc, val |-> codewords, ps |-> ps]
            ELSE InOrder(<<codeword, root>>,
                     commit_quotients(stark, boundary_quotients, s + 1,
                                      Append(codewords, codeword),
                                      ProofStream_push(ps, DigestObj(root.val))))
        evaluated(codeword) ==
            IF codeword.exc # "" THEN [exc |-> codeword.exc, val |-> codewords, ps |-> ps]
            ELSE pushed(codeword.val, Merkle_commit(codeword.val))
    IN  evaluated(fast_coset_evaluate(boundary_quotients[s], stark.generator,
                                      stark.omega, stark.fri_domain_length))

\* for i in indices: push(codeword[i]); push(Merkle.open(i, codeword))
RECURSIVE open_positions(_, _, _, _)
open_positions(codeword, indices, j, ps) ==
    IF j > Len(indices) THEN [exc |-> "", ps |-> ps]
    ELSE
    LET opened(ps1, path) ==
            IF path.exc # "" THEN [exc |-> path.exc, ps |-> ps1]
            ELSE InOrder(path, open_positions(codeword, indices, j + 1,
                                              ProofStream_push(ps1, PathObj(path.val))))
    IN  IF indices[j] >= Len(codeword) THEN [exc |-> "IndexError", ps |-> ps]
        ELSE opened(ProofStream_push(ps, ElementObj(codeword[indices[j] + 1])),
                    Merkle_open(indices[j], codeword))

RECURSIVE open_codewords(_, _, _, _)
open_codewords(codewords, n, indices, ps) ==
    IF n > Len(codewords) THEN [exc |-> "", ps |-> ps]
    ELSE LET next(opened) ==
                 IF opened.exc # "" THEN opened
                 ELSE open_codewords(codewords, n + 1, indices, opened.ps)
         IN  next(open_positions(codewords[n], indices, 1, ps))

\* the terms of the nonlinear combination: the randomizer polynomial, then
\* each transition quotient and its shift, then each boundary quotient and
\* its shift
ProverTerms(randomizer_polynomial, transition_quotients, transition_bounds, boundary_quotients, boundary_bounds, max_degree) ==
    LET pair(quotient, bound) ==
            <<quotient, Polynomial_mul(Polynomial_pow(<<0, 1>>, max_degree - bound),
                                       quotient)>>
    IN  <<randomizer_polynomial>>
            \o Concat(List([i \in 1..Len(transition_quotients) |->
                          pair(transition_quotients[i], transition_bounds[i])]),
                      1, Len(transition_quotients))
            \o Concat(List([i \in 1..Len(boundary_quotients) |->
                          pair(boundary_quotients[i], boundary_bounds[i])]),
                      1, Len(boundary_quotients))

\* duplicated_indices and quadrupled_indices of prove, sorted
QuadrupledIndices(stark, indices) ==
    LET duplicated ==
            indices \o List([n \in 1..Len(indices) |->
                (indices[n] + stark.expansion_factor) % stark.fri.domain_length])
        quadrupled(d) ==
            d \o List([n \in 1..Len(d) |->
                (d[n] + (stark.fri.domain_length \div 2)) % stark.fri.domain_length])
    IN  SortedBy(quadrupled(duplicated), LAMBDA i : i)

\* prove raised e: no proof, ps is the stream at that moment
\* positions: where the codewords were opened, none yet
prove_fail(e, ps) == [exc |-> e, val |-> <<>>, ps |-> ps, positions |-> <<>>]

\* the final proof is just the serialized stream
prove_serialized(opened) ==
    IF opened.exc # "" THEN prove_fail(opened.exc, opened.ps)
    ELSE IF DumpsRaises(opened.ps.objects) THEN prove_fail("PicklingError", opened.ps)
    ELSE [exc |-> "", val |-> ProofStream_serialize(opened.ps), ps |-> opened.ps,
          positions |-> <<>>]

\* open indicated positions in the boundary quotient codewords, in the
\* randomizer and in the zerofier
prove_opened_at(args, opened_codewords, quadrupled_indices, ps) ==
    [prove_serialized(open_codewords(opened_codewords, 1, quadrupled_indices, ps))
        EXCEPT !.positions = quadrupled_indices]

\* process indices
prove_opened(args, boundary_quotient_codewords, randomizer_codeword, indices) ==
    IF indices.exc # "" THEN prove_fail(indices.exc, indices.ps)
    ELSE prove_opened_at(args,
             boundary_quotient_codewords
                 \o <<randomizer_codeword, args.transition_zerofier_codeword>>,
             QuadrupledIndices(args.stark, indices.val), indices.ps)

\* prove low degree of the combination polynomial
prove_combined(args, boundary_quotient_codewords, randomizer_codeword, ps, combined_codeword) ==
    IF combined_codeword.exc # "" THEN prove_fail(combined_codeword.exc, ps)
    ELSE prove_opened(args, boundary_quotient_codewords, randomizer_codeword,
                      Fri_prove(args.stark.fri, combined_codeword.val, ps))

\* take the weighted sum, compute the matching codeword
prove_summed(args, boundary_quotient_codewords, randomizer_codeword, ps, weights, terms) ==
    prove_combined(args, boundary_quotient_codewords, randomizer_codeword, ps,
        fast_coset_evaluate(
            Polynomial_sum(List([i \in 1..Len(terms) |->
                               Polynomial_mul(Polynomial_new(<<weights[i]>>), terms[i])]),
                           1, Len(terms)),
            args.stark.generator, args.stark.omega, args.stark.fri_domain_length))

\* get weights, check the transition quotient degrees, compute terms
prove_weighted(args, boundary_quotients, boundary_quotient_codewords, transition_quotients, randomizer_polynomial, randomizer_codeword, ps, bounds) ==
    IF DumpsRaises(ps.objects) THEN prove_fail("PicklingError", ps)
    ELSE IF List([i \in 1..Len(transition_quotients) |->
                    Polynomial_degree(transition_quotients[i])]) # bounds
    THEN prove_fail("ValueError", ps)
    ELSE prove_summed(args, boundary_quotient_codewords, randomizer_codeword, ps,
             FastStark_sample_weights(
                 1 + 2 * Len(transition_quotients) + 2 * Len(boundary_quotients),
                 ProofStream_prover_fiat_shamir(ps)),
             ProverTerms(randomizer_polynomial, transition_quotients, bounds,
                 boundary_quotients,
                 FastStark_boundary_quotient_degree_bounds(args.stark, Len(args.rows),
                                                           args.boundary_constraints),
                 FastStark_max_degree(args.stark, args.transition_constraints)))

prove_rooted(args, boundary_quotients, boundary_quotient_codewords, transition_quotients, randomizer_polynomial, randomizer_codeword, ps, randomizer_root) ==
    IF randomizer_root.exc # "" THEN prove_fail(randomizer_root.exc, ps)
    ELSE prove_weighted(args, boundary_quotients, boundary_quotient_codewords,
             transition_quotients, randomizer_polynomial, randomizer_codeword,
             ProofStream_push(ps, DigestObj(randomizer_root.val)),
             FastStark_transition_quotient_degree_bounds(args.stark,
                                                         args.transition_constraints))

prove_randomized(args, boundary_quotients, boundary_quotient_codewords, transition_quotients, randomizer_polynomial, ps, randomizer_codeword) ==
    IF randomizer_codeword.exc # "" THEN prove_fail(randomizer_codeword.exc, ps)
    ELSE prove_rooted(args, boundary_quotients, boundary_quotient_codewords,
             transition_quotients, randomizer_polynomial,
             randomizer_codeword.val, ps, Merkle_commit(randomizer_codeword.val))

\* commit to the randomizer polynomial
prove_randomizer(args, boundary_quotients, boundary_quotient_codewords, transition_quotients, ps, randomizer_polynomial) ==
    prove_randomized(args, boundary_quotients, boundary_quotient_codewords,
        transition_quotients, randomizer_polynomial, ps,
        fast_coset_evaluate(randomizer_polynomial, args.stark.generator,
                            args.stark.omega, args.stark.fri_domain_length))

prove_divided(args, boundary_quotients, boundary_quotient_codewords, ps, transition_quotients) ==
    IF FirstExc(transition_quotients) # ""
    THEN prove_fail(FirstExc(transition_quotients), ps)
    ELSE IF MaxDegreeRaises(args.transition_constraints) THEN prove_fail("ValueError", ps)
    ELSE prove_randomizer(args, boundary_quotients, boundary_quotient_codewords,
             Vals(transition_quotients), ps,
             Polynomial_new(List(
                 [i \in 1..(FastStark_max_degree(args.stark, args.transition_constraints) + 1) |->
                     Field_sample(os_urandom(args.seed,
                         args.stark.num_randomizers * args.stark.num_registers + i))])))

\* divide out the zerofier
prove_symbolic(args, boundary_quotients, boundary_quotient_codewords, ps, transition_polynomials) ==
    IF FirstExc(transition_polynomials) # ""
    THEN prove_fail(FirstExc(transition_polynomials), ps)
    ELSE prove_divided(args, boundary_quotients, boundary_quotient_codewords, ps,
             List([n \in 1..Len(transition_polynomials) |->
                 fast_coset_divide(transition_polynomials[n].val,
                     args.transition_zerofier, args.stark.generator, args.stark.omicron,
                     args.stark.omicron_domain_length)]))

\* symbolically evaluate the transition constraints
prove_evaluated(args, boundary_quotients, boundary_quotient_codewords, ps, point) ==
    prove_symbolic(args, boundary_quotients, boundary_quotient_codewords, ps,
        List([n \in 1..Len(args.transition_constraints) |->
            MPolynomial_evaluate_symbolic(args.transition_constraints[n], point)]))

prove_committed(args, trace_polynomials, boundary_quotients, codewords) ==
    IF codewords.exc # "" THEN prove_fail(codewords.exc, codewords.ps)
    ELSE prove_evaluated(args, boundary_quotients, codewords.val, codewords.ps,
             <<<<0, 1>>>> \o trace_polynomials
                 \o List([s \in 1..Len(trace_polynomials) |->
                        Polynomial_scale(trace_polynomials[s], args.stark.omicron)]))

\* commit to the boundary quotients
prove_quotients(args, trace_polynomials, boundary_quotients) ==
    IF boundary_quotients.exc # ""
    THEN prove_fail(boundary_quotients.exc, ProofStream_new(<<>>))
    ELSE prove_committed(args, trace_polynomials, boundary_quotients.val,
             commit_quotients(args.stark, boundary_quotients.val, 1, <<>>,
                              ProofStream_new(<<>>)))

\* subtract boundary interpolants and divide out boundary zerofiers
prove_interpolated(args, trace_polynomials) ==
    IF FirstExc(trace_polynomials) # ""
    THEN prove_fail(FirstExc(trace_polynomials), ProofStream_new(<<>>))
    ELSE prove_quotients(args, Vals(trace_polynomials),
             BoundaryQuotients(args.stark, Vals(trace_polynomials),
                               args.boundary_constraints))

\* interpolate
prove_interpolate(args, trace_domain) ==
    prove_interpolated(args, List([s \in 1..args.stark.num_registers |->
        fast_interpolate(trace_domain,
                         List([c \in 1..Len(args.rows) |-> args.rows[c][s]]),
                         args.stark.omicron, args.stark.omicron_domain_length)]))

\* the arguments of prove, and the randomized trace in rows
prove_args(stark, transition_constraints, boundary_constraints, transition_zerofier, transition_zerofier_codeword, seed, rows) ==
    [stark |-> stark, transition_constraints |-> transition_constraints,
     boundary_constraints |-> boundary_constraints,
     transition_zerofier |-> transition_zerofier,
     transition_zerofier_codeword |-> transition_zerofier_codeword,
     seed |-> seed, rows |-> rows]

\* FastStark.prove on a new proof stream: val is the proof, ps the stream
\* when prove returned or raised
FastStark_prove(stark, trace, transition_constraints, boundary_constraints, transition_zerofier, transition_zerofier_codeword, seed) ==
    prove_interpolate(
        prove_args(stark, transition_constraints, boundary_constraints,
                   transition_zerofier, transition_zerofier_codeword, seed,
                   RandomizedTrace(stark, trace, seed)),
        List([i \in 1..(Len(trace) + stark.num_randomizers) |->
                FieldElement_pow(stark.omicron, i - 1)]))

\* [proof_stream.pull() for _ in range(count)]: val is the objects pulled
RECURSIVE pull_roots(_, _, _)
pull_roots(ps, count, roots) ==
    IF count <= 0 THEN [exc |-> "", val |-> roots, ps |-> ps]
    ELSE LET next(pulled) ==
                 IF pulled.exc # "" THEN [exc |-> pulled.exc, val |-> roots, ps |-> ps]
                 ELSE InOrder(pulled, pull_roots(pulled.ps, count - 1,
                                                 Append(roots, pulled.val)))
         IN  next(ProofStream_pull(ps))

\* Merkle.verify(root, i, path, leaf) on two pulled objects: bytes(leaf) is
\* defined for a field element and for bytes, and the path is a list of
\* digests; objects of another type raise TypeError
LeafVerify(root, index, path, leaf) ==
    IF leaf.tag \notin {"element", "digest"} \/ path.tag # "path" THEN RaiseB("TypeError")
    ELSE IF leaf.tag = "element"
    THEN Merkle_verify(root.ints, index, path.paths[1], leaf.ints[1])
    ELSE Merkle__verify(root.ints, index, path.paths[1], Merkle_H(leaf.ints))

\* one of the loops of verify that read and verify leafs: for i in indices,
\* pull the leaf and the path and verify them against root.  val is FALSE
\* when a path does not verify (verify returns False), leafs the objects
\* read, in the order of indices.  bound tells whether verifier_accepts has
\* been assigned before the loop.
RECURSIVE read_leafs(_, _, _, _, _, _)
read_leafs(ps, root, indices, j, leafs, bound) ==
    IF j > Len(indices) THEN [exc |-> "", val |-> TRUE, ps |-> ps, leafs |-> leafs]
    ELSE
    LET out(e, v, ps2) == [exc |-> e, val |-> v, ps |-> ps2, leafs |-> leafs]
        verified(leaf, ps2, verifier_accepts) ==
            IF verifier_accepts.exc # "" THEN out(verifier_accepts.exc, FALSE, ps2)
            ELSE IF ~verifier_accepts.val THEN out("", FALSE, ps2)
            ELSE InOrder(verifier_accepts,
                     read_leafs(ps2, root, indices, j + 1, Append(leafs, leaf), TRUE))
        second(leaf, path) ==
            IF path.exc # "" THEN out(path.exc, FALSE, path.ps)
            ELSE IF ~bound THEN out("UnboundLocalError", FALSE, path.ps)
            ELSE verified(leaf, path.ps, LeafVerify(root, indices[j], path.val, leaf))
        first(leaf) ==
            IF leaf.exc # "" THEN out(leaf.exc, FALSE, leaf.ps)
            ELSE second(leaf.val, ProofStream_pull(leaf.ps))
    IN  first(ProofStream_pull(ps))

\* the first loop, over the boundary quotient roots: leafs is one list per
\* root
RECURSIVE read_quotient_leafs(_, _, _, _, _)
read_quotient_leafs(ps, roots, r, indices, leafs) ==
    IF r > Len(roots) THEN [exc |-> "", val |-> TRUE, ps |-> ps, leafs |-> leafs]
    ELSE LET next(read) ==
                 IF read.exc # "" \/ ~read.val
                 THEN [exc |-> read.exc, val |-> FALSE, ps |-> read.ps, leafs |-> leafs]
                 ELSE read_quotient_leafs(read.ps, roots, r + 1, indices,
                                          Append(leafs, read.leafs))
         IN  next(read_leafs(ps, roots[r], indices, 1, <<>>, TRUE))

\* d[i] of a dictionary filled in the order of indices: the last value
\* stored under the key i
Lookup(indices, leafs, i) ==
    leafs[CHOOSE j \in 1..Len(indices) :
              indices[j] = i /\ \A n \in (j + 1)..Len(indices) : indices[n] # i]

\* infer trace length from boundary conditions
verify_randomized_trace_length(stark, boundary_constraints) ==
    1 + MaxOf(List([n \in 1..Len(boundary_constraints) |-> boundary_constraints[n][1]]))
      + stark.num_randomizers

\* the terms of the verifier's nonlinear combination at one index
VerifierTerms(randomizer_value, quotients, transition_shifts, boundary_values, boundary_shifts, x) ==
    LET pair(value, shift) ==
            <<value, Field_multiply(value, FieldElement_pow(x, shift))>>
    IN  <<randomizer_value>>
            \o Concat(List([s \in 1..Len(quotients) |->
                          pair(quotients[s], transition_shifts[s])]), 1, Len(quotients))
            \o Concat(List([s \in 1..Len(boundary_values) |->
                          pair(boundary_values[s], boundary_shifts[s])]),
                      1, Len(boundary_values))

\* the last loop of verify, from index i on: val is FALSE when a combination
\* differs from the value FRI returned.  read holds what the verifier has
\* read: indices, values, duplicated_indices, leafs, randomizer,
\* transition_zerofier, weights, randomized_trace_length.
RECURSIVE check_combinations(_, _, _, _, _)
check_combinations(stark, transition_constraints, boundary_constraints, read, i) ==
    IF i > Len(read.indices) THEN Ok(TRUE)
    ELSE
    LET current_index == read.indices[i]
        next_index == (current_index + stark.expansion_factor) % stark.fri.domain_length
        domain_current_index ==
            Field_multiply(stark.generator, FieldElement_pow(stark.omega, current_index))
        domain_next_index ==
            Field_multiply(stark.generator, FieldElement_pow(stark.omega, next_index))
        leaf(s, index) == Lookup(read.duplicated_indices, read.leafs[s], index)
        trace_value(s, index, x, zerofiers, interpolants) ==
            Field_add(Field_multiply(leaf(s, index).ints[1],
                                     Polynomial_evaluate(zerofiers[s], x)),
                      Polynomial_evaluate(interpolants[s], x))
        point(zerofiers, interpolants) ==
            <<domain_current_index>>
                \o List([s \in 1..stark.num_registers |->
                       trace_value(s, current_index, domain_current_index, zerofiers,
                                   interpolants)])
                \o List([s \in 1..stark.num_registers |->
                       trace_value(s, next_index, domain_next_index, zerofiers,
                                   interpolants)])
        compared(combination) ==
            IF combination # read.values[i] THEN Ok(FALSE)
            ELSE InOrder(combination,
                     check_combinations(stark, transition_constraints,
                                        boundary_constraints, read, i + 1))
        combine(terms) ==
            compared(Field_sum(List([j \in 1..Len(terms) |->
                                   Field_multiply(terms[j], read.weights[j])]),
                               1, Len(terms)))
        shifted(quotients, max_degree) ==
            IF Lookup(read.duplicated_indices, read.randomizer, current_index).tag
                   # "element"
            THEN RaiseB("TypeError")
            ELSE
            combine(VerifierTerms(
                Lookup(read.duplicated_indices, read.randomizer, current_index).ints[1],
                quotients,
                List([s \in 1..Len(quotients) |->
                    max_degree - FastStark_transition_quotient_degree_bounds(stark,
                                     transition_constraints)[s]]),
                List([s \in 1..stark.num_registers |-> leaf(s, current_index).ints[1]]),
                List([s \in 1..stark.num_registers |->
                    max_degree - FastStark_boundary_quotient_degree_bounds(stark,
                                     read.randomized_trace_length,
                                     boundary_constraints)[s]]),
                domain_current_index))
        divided(transition_constraints_values, zerofier_value) ==
            IF FirstExc(transition_constraints_values) # ""
            THEN RaiseB(FirstExc(transition_constraints_values))
            ELSE IF Len(transition_constraints_values) > 0 /\ zerofier_value.tag # "element"
            THEN RaiseB("AttributeError")
            ELSE IF Len(transition_constraints_values) > 0
                      /\ DivideRaises(zerofier_value.ints[1])
            THEN RaiseB("ValueError")
            ELSE IF MaxDegreeRaises(transition_constraints) THEN RaiseB("ValueError")
            ELSE shifted(List([s \in 1..Len(transition_constraints_values) |->
                             Field_divide(transition_constraints_values[s].val,
                                          zerofier_value.ints[1])]),
                         FastStark_max_degree(stark, transition_constraints))
        evaluated(at) ==
            divided(List([s \in 1..Len(transition_constraints) |->
                        MPolynomial_evaluate(transition_constraints[s], at)]),
                    Lookup(read.duplicated_indices, read.transition_zerofier,
                           current_index))
    IN  IF \E s \in 1..stark.num_registers :
               \/ leaf(s, current_index).tag # "element"
               \/ leaf(s, next_index).tag # "element"
        THEN RaiseB("TypeError")
        ELSE evaluated(point(FastStark_boundary_zerofiers(stark, boundary_constraints),
                             FastStark_boundary_interpolants(stark, boundary_constraints)))

\* verify raised e, or returned False when e is "": ps is the stream at
\* that moment
\* positions: where the verifier reads the leafs of each codeword, none yet
verify_fail(e, ps) == [exc |-> e, val |-> FALSE, ps |-> ps, positions |-> <<>>]

\* verify leafs of the combination polynomial
verify_checked(ps, verifier_accepts) ==
    [exc |-> verifier_accepts.exc, val |-> verifier_accepts.val, ps |-> ps,
     positions |-> <<>>]

verify_zerofier_read(args, read, zerofier_leafs) ==
    IF zerofier_leafs.exc # "" THEN verify_fail(zerofier_leafs.exc, zerofier_leafs.ps)
    ELSE IF ~zerofier_leafs.val THEN verify_fail("", zerofier_leafs.ps)
    ELSE verify_checked(zerofier_leafs.ps,
             check_combinations(args.stark, args.transition_constraints,
                 args.boundary_constraints,
                 [read EXCEPT !.transition_zerofier = zerofier_leafs.leafs], 1))

\* read and verify transition zerofier leafs
verify_randomizer_read(args, read, randomizer_leafs) ==
    IF randomizer_leafs.exc # ""
    THEN verify_fail(randomizer_leafs.exc, randomizer_leafs.ps)
    ELSE IF ~randomizer_leafs.val THEN verify_fail("", randomizer_leafs.ps)
    ELSE verify_zerofier_read(args, [read EXCEPT !.randomizer = randomizer_leafs.leafs],
             read_leafs(randomizer_leafs.ps, DigestObj(args.transition_zerofier_root),
                        read.duplicated_indices, 1, <<>>, TRUE))

\* read and verify randomizer leafs
verify_quotients_read(args, read, randomizer_root, quotient_leafs) ==
    IF quotient_leafs.exc # "" THEN verify_fail(quotient_leafs.exc, quotient_leafs.ps)
    ELSE IF ~quotient_leafs.val THEN verify_fail("", quotient_leafs.ps)
    ELSE IF Len(read.duplicated_indices) = 0
    THEN verify_fail("UnboundLocalError", quotient_leafs.ps)
    ELSE verify_randomizer_read(args, [read EXCEPT !.leafs = quotient_leafs.leafs],
             read_leafs(quotient_leafs.ps, randomizer_root,
                        read.duplicated_indices, 1, <<>>,
                        args.stark.num_registers > 0))

\* what the verifier holds after FRI: the indices and values FRI returned,
\* sorted, and duplicated_indices, sorted
verify_read(args, weights, polynomial_values) ==
    [indices |-> List([n \in 1..Len(polynomial_values) |-> polynomial_values[n][1]]),
     values |-> List([n \in 1..Len(polynomial_values) |-> polynomial_values[n][2]]),
     duplicated_indices |->
         SortedBy(
             List([n \in 1..(2 * Len(polynomial_values)) |->
                 IF n <= Len(polynomial_values)
                 THEN polynomial_values[n][1]
                 ELSE (polynomial_values[n - Len(polynomial_values)][1]
                          + args.stark.expansion_factor)
                      % args.stark.fri.domain_length]),
             LAMBDA i : i),
     leafs |-> <<>>, randomizer |-> <<>>, transition_zerofier |-> <<>>,
     weights |-> weights,
     randomized_trace_length |->
         verify_randomized_trace_length(args.stark, args.boundary_constraints)]

\* read and verify leafs, which are elements of boundary quotient codewords
verify_sorted(args, ps, roots, randomizer_root, read) ==
    [verify_quotients_read(args, read, randomizer_root,
         read_quotient_leafs(ps, roots, 1, read.duplicated_indices, <<>>))
        EXCEPT !.positions = read.duplicated_indices]

\* verify low degree of the combination polynomial
verify_low_degree(args, roots, randomizer_root, weights, polynomial_values) ==
    IF polynomial_values.exc # ""
    THEN verify_fail(polynomial_values.exc, polynomial_values.ps)
    ELSE verify_sorted(args, polynomial_values.ps, roots, randomizer_root,
             verify_read(args, weights,
                         SortedBy(polynomial_values.val, LAMBDA iv : iv[1])))

\* get weights for the nonlinear combination
verify_weighted(args, roots, randomizer_root) ==
    IF randomizer_root.exc # "" THEN verify_fail(randomizer_root.exc, randomizer_root.ps)
    ELSE IF BoundaryInterpolantsRaise(args.stark, args.boundary_constraints)
    THEN verify_fail("ValueError", randomizer_root.ps)
    ELSE IF DumpsRaises(Slice(randomizer_root.ps.objects, 0,
                              randomizer_root.ps.read_index))
    THEN verify_fail("PicklingError", randomizer_root.ps)
    ELSE verify_low_degree(args, roots, randomizer_root.val,
             FastStark_sample_weights(
                 1 + 2 * Len(args.transition_constraints) + 2 * args.stark.num_registers,
                 ProofStream_verifier_fiat_shamir(randomizer_root.ps)),
             Fri_verify(args.stark.fri, randomizer_root.ps))

\* get the Merkle root of the randomizer polynomial
verify_rooted(args, roots) ==
    IF roots.exc # "" THEN verify_fail(roots.exc, roots.ps)
    ELSE verify_weighted(args, roots.val, ProofStream_pull(roots.ps))

\* the arguments of verify
verify_args(stark, transition_constraints, boundary_constraints, transition_zerofier_root) ==
    [stark |-> stark, transition_constraints |-> transition_constraints,
     boundary_constraints |-> boundary_constraints,
     transition_zerofier_root |-> transition_zerofier_root]

\* FastStark.verify on a new proof stream: val is the verdict, ps the stream
\* when verify returned or raised
FastStark_verify(stark, proof, transition_constraints, boundary_constraints, transition_zerofier_root) ==
    IF Len(boundary_constraints) = 0 THEN verify_fail("ValueError", ProofStream_new(<<>>))
    ELSE verify_rooted(
             verify_args(stark, transition_constraints, boundary_constraints,
                         transition_zerofier_root),
             pull_roots(ProofStream_deserialize(proof), stark.num_registers, <<>>))

(***************************************************************************)
(* The state.  Each component of the repository is exercised by its own    *)
(* specification over the same variables; a specification leaves the       *)
(* variables of the other components at their initial values.              *)
(*                                                                         *)
(* ip.py                                                                   *)
(*   proof_stream  the ProofStream object at hand: objects, read_index     *)
(*   origin        how it was created: "empty", "list" or "deserialize"    *)
(*   bb            the bytes the last successful serialize() returned      *)
(*   outcome       the last call: its name, the exception it raised ("" if *)
(*                 none), the object pushed or pulled, the bytes returned  *)
(*   history       the last push and pull calls on the object, oldest      *)
(*                 first, at most HistoryLen of them                       *)
(*   pulled        the objects the successful pulls returned, in order     *)
(*   created_at    read_index when the object was created                  *)
(*   challenges    <<j, c>> for each challenge c that prover_fiat_shamir   *)
(*                 returned on the prover's stream holding j objects       *)
(*   loaded        the number of objects deserialize() loaded, 0 before    *)
(* merkle.py                                                               *)
(*   data          the committed sequence of field elements                *)
(*   merkle        the last call on it: name, index, exception, the root,  *)
(*                 path or verdict returned, and for a _verify call what   *)
(*                 was replaced in the honest arguments                    *)
(* fri.py                                                                  *)
(*   fri           the Fri object: the constructor's arguments             *)
(*   codeword      the codeword handed to Fri.prove                        *)
(*   fri_stream    the proof stream prove writes and verify reads          *)
(*   fri_proved    the outcome of Fri.prove                                *)
(*   fri_verified  the outcome of Fri.verify                               *)
(* fast_stark.py                                                           *)
(*   stark         the FastStark object                                    *)
(*   trace, transition_constraints, boundary_constraints                   *)
(*                 the statement: the execution trace and its constraints  *)
(*   preprocessed  the outcome of preprocess(): the transition zerofier,   *)
(*                 its codeword and its Merkle root                        *)
(*   stark_proved  the outcome of prove(): the exception raised, the proof *)
(*                 returned, the objects of the proof stream when it       *)
(*                 returned or raised, the os.urandom outcome drawn        *)
(*   stark_verified the outcome of verify(): the exception raised, the     *)
(*                 verdict returned, and the proof it was given            *)
(* algebra.py, univariate.py, multivariate.py, ntt.py and the constructor  *)
(* of fast_stark.py                                                        *)
(*   called        the function or method that is called, and its          *)
(*                 arguments                                               *)
(*   returned      what the call returned, or the exception it raised      *)
(***************************************************************************)
VARIABLES proof_stream, origin, bb, outcome, history, pulled, created_at,
          challenges, loaded, data, merkle, fri, codeword, fri_stream, fri_proved,
          fri_verified, stark, trace, transition_constraints, boundary_constraints,
          preprocessed, stark_proved, stark_verified, called, returned

streamVars == <<proof_stream, origin, bb, outcome, history, pulled, created_at,
                challenges, loaded>>

merkleVars == <<data, merkle>>

friVars == <<fri, codeword, fri_stream, fri_proved, fri_verified>>

starkVars == <<stark, trace, transition_constraints, boundary_constraints,
               preprocessed, stark_proved, stark_verified>>

\* the call of a function of the library and what it returned or raised
callVars == <<called, returned>>

vars == <<streamVars, merkleVars, friVars, starkVars, callVars>>

NoObject == DigestObj(<<>>)

NoOutcome == [op |-> "", exc |-> "", obj |-> NoObject, bytes |-> <<>>]

StreamIdle ==
    /\ proof_stream = ProofStream_new(<<>>)
    /\ origin = "empty"
    /\ bb = <<>>
    /\ outcome = NoOutcome
    /\ history = <<>>
    /\ pulled = <<>>
    /\ created_at = 0
    /\ challenges = {}
    /\ loaded = 0

NoMerkle ==
    [op |-> "", index |-> 0, exc |-> "", root |-> <<>>, path |-> <<>>,
     verdict |-> FALSE, tampered |-> ""]

MerkleIdle == data = <<>> /\ merkle = NoMerkle

NoFriOutcome == [op |-> "", exc |-> "", indices |-> <<>>, points |-> <<>>]

FriIdle ==
    /\ fri = Fri_new(1, 1, 0, 0, 0)
    /\ codeword = <<>>
    /\ fri_stream = ProofStream_new(<<>>)
    /\ fri_proved = NoFriOutcome
    /\ fri_verified = NoFriOutcome

NoStark ==
    [expansion_factor |-> 0, num_colinearity_checks |-> 0, security_level |-> 0,
     num_randomizers |-> 0, num_registers |-> 0, original_trace_length |-> 0,
     randomized_trace_length |-> 0, omicron_domain_length |-> 0,
     fri_domain_length |-> 0, generator |-> 1, omega |-> 1, omicron |-> 1,
     omicron_domain |-> <<>>, fri |-> Fri_new(1, 1, 0, 0, 0)]

NoPreprocessed == [op |-> "", exc |-> "", val |-> <<>>]

NoStarkProved ==
    [op |-> "", exc |-> "", proof |-> <<>>, objects |-> <<>>, seed |-> 0, positions |-> <<>>]

NoStarkVerified ==
    [op |-> "", exc |-> "", verdict |-> FALSE, proof |-> <<>>, forged |-> "",
     positions |-> <<>>, read_index |-> 0]

StarkIdle ==
    /\ stark = NoStark
    /\ trace = <<>>
    /\ transition_constraints = <<>>
    /\ boundary_constraints = <<>>
    /\ preprocessed = NoPreprocessed
    /\ stark_proved = NoStarkProved
    /\ stark_verified = NoStarkVerified

NoCall == [fn |-> "", args |-> <<>>]

NoResult == [done |-> FALSE, exc |-> "", val |-> <<>>]

CallIdle == called = NoCall /\ returned = NoResult

(***************************************************************************)
(* The ProofStream specification (ip.py).  A prover creates a stream,      *)
(* pushes objects, derives challenges and serializes; a verifier           *)
(* deserializes the bytes, pulls and derives challenges.                   *)
(***************************************************************************)
\* the most objects a stream is grown to
MaxObjects == 2

\* the push and pull calls remembered in history: a pull, a push, a pull
HistoryLen == Len(<<"pull", "push", "pull">>)

\* the objects pushed: a Merkle root and a ColinearityCheck as fri.py builds
\* it
ObjectUniverse ==
    {DigestObj(<<7, 9>>),
     ColinearityCheck(<<1, 2, 3>>, <<<<<<4, 5>>>>, <<<<6, 7>>>>, <<>>>>)}

\* the lists of at most n objects
RECURSIVE ObjectLists(_)
ObjectLists(n) ==
    IF n = 0 THEN {<<>>}
    ELSE LET shorter == ObjectLists(n - 1)
         IN  shorter \cup {Append(l, o) : l \in {x \in shorter : Len(x) = n - 1},
                                          o \in ObjectUniverse}

Remember(h, entry) ==
    IF Len(h) < HistoryLen THEN Append(h, entry) ELSE Append(Tail(h), entry)

\* ProofStream() or ProofStream(objects)
StreamInit ==
    /\ \E objects \in ObjectLists(MaxObjects) :
          /\ proof_stream = ProofStream_new(objects)
          /\ origin = IF objects = <<>> THEN "empty" ELSE "list"
          /\ created_at = Len(objects)
    /\ bb = <<>>
    /\ outcome = NoOutcome
    /\ history = <<>>
    /\ pulled = <<>>
    /\ challenges = {}
    /\ loaded = 0
    /\ MerkleIdle
    /\ FriIdle
    /\ StarkIdle
    /\ CallIdle

ProofStreamPush(obj) ==
    /\ Len(proof_stream.objects) < MaxObjects
    /\ proof_stream' = ProofStream_push(proof_stream, obj)
    /\ outcome' = [NoOutcome EXCEPT !.op = "push", !.obj = obj]
    /\ history' = Remember(history, [op |-> "push", exc |-> "", obj |-> obj])
    /\ UNCHANGED <<origin, bb, pulled, created_at, challenges, loaded, merkleVars,
                   friVars, starkVars, callVars>>

ProofStreamPull ==
    LET got == ProofStream_pull(proof_stream)
    IN  /\ proof_stream' = got.ps
        /\ outcome' = [NoOutcome EXCEPT !.op = "pull", !.exc = got.exc, !.obj = got.val]
        /\ history' = Remember(history, [op |-> "pull", exc |-> got.exc, obj |-> got.val])
        /\ pulled' = IF got.exc = "" THEN Append(pulled, got.val) ELSE pulled
        /\ UNCHANGED <<origin, bb, created_at, challenges, loaded, merkleVars, friVars,
                       starkVars, callVars>>

ProofStreamSerialize ==
    LET raises == DumpsRaises(proof_stream.objects)
        bytes == IF raises THEN <<>> ELSE ProofStream_serialize(proof_stream)
    IN  /\ outcome' = [NoOutcome EXCEPT !.op = "serialize",
                          !.exc = IF raises THEN "PicklingError" ELSE "",
                          !.bytes = bytes]
        /\ bb' = IF raises THEN bb ELSE bytes
        /\ UNCHANGED <<proof_stream, origin, history, pulled, created_at,
                       challenges, loaded, merkleVars, friVars,
                       starkVars, callVars>>

\* ProofStream.deserialize(bb) on the bytes the prover's serialize() returned:
\* the object at hand is from now on the verifier's
ProofStreamDeserialize ==
    /\ bb # <<>>
    /\ origin # "deserialize"
    /\ proof_stream' = ProofStream_deserialize(bb)
    /\ loaded' = Len(pickle_loads(bb))
    /\ origin' = "deserialize"
    /\ outcome' = [NoOutcome EXCEPT !.op = "deserialize"]
    /\ history' = <<>>
    /\ pulled' = <<>>
    /\ created_at' = 0
    /\ UNCHANGED <<bb, challenges, merkleVars, friVars,
                       starkVars, callVars>>

ProofStreamProverFiatShamir ==
    LET raises == DumpsRaises(proof_stream.objects)
        c == IF raises THEN <<>> ELSE ProofStream_prover_fiat_shamir(proof_stream)
    IN  /\ outcome' = [NoOutcome EXCEPT !.op = "prover_fiat_shamir",
                          !.exc = IF raises THEN "PicklingError" ELSE "",
                          !.bytes = c]
        /\ challenges' = IF raises \/ origin = "deserialize" THEN challenges
                         ELSE challenges \cup {<<Len(proof_stream.objects), c>>}
        /\ UNCHANGED <<proof_stream, origin, bb, history, pulled, created_at,
                       loaded, merkleVars, friVars,
                       starkVars, callVars>>

ProofStreamVerifierFiatShamir ==
    LET raises == DumpsRaises(Slice(proof_stream.objects, 0, proof_stream.read_index))
        c == IF raises THEN <<>> ELSE ProofStream_verifier_fiat_shamir(proof_stream)
    IN  /\ outcome' = [NoOutcome EXCEPT !.op = "verifier_fiat_shamir",
                          !.exc = IF raises THEN "PicklingError" ELSE "",
                          !.bytes = c]
        /\ UNCHANGED <<proof_stream, origin, bb, history, pulled, created_at,
                       challenges, loaded, merkleVars, friVars,
                       starkVars, callVars>>

StreamNext ==
    \/ \E obj \in ObjectUniverse : ProofStreamPush(obj)
    \/ ProofStreamPull
    \/ ProofStreamSerialize
    \/ ProofStreamDeserialize
    \/ ProofStreamProverFiatShamir
    \/ ProofStreamVerifierFiatShamir

SpecStream == StreamInit /\ [][StreamNext]_vars

(***************************************************************************)
(* Claims about the ProofStream                                            *)
(***************************************************************************)
\* the first n objects of a list
Prefix(objects, n) == SubSeq(objects, 1, n)

\* C4: prover_fiat_shamir returns the hash of the serialization of all the
\* objects pushed so far and verifier_fiat_shamir the hash of the
\* serialization of the first read_index objects; so a challenge the prover
\* derived when exactly j objects had been pushed equals the challenge the
\* verifier derives from the deserialized stream after exactly j pulls.
C4_FiatShamirSymmetry ==
    /\ (outcome.op = "prover_fiat_shamir" /\ outcome.exc = "")
          => outcome.bytes = shake_256(pickle_dumps(proof_stream.objects), NumBytes)
    /\ (outcome.op = "verifier_fiat_shamir" /\ outcome.exc = "")
          => outcome.bytes =
                shake_256(pickle_dumps(Prefix(proof_stream.objects,
                                              proof_stream.read_index)), NumBytes)
    /\ (/\ origin = "deserialize"
        /\ outcome.op = "verifier_fiat_shamir"
        /\ outcome.exc = ""
        /\ proof_stream.read_index <= loaded)
          => \A jc \in challenges :
                jc[1] = proof_stream.read_index => jc[2] = outcome.bytes

\* the verifier has pulled j >= 1 of the deserialized objects and derived a
\* challenge where the prover had derived one at j pushes
C4_Witness ==
    /\ origin = "deserialize"
    /\ outcome.op = "verifier_fiat_shamir"
    /\ outcome.exc = ""
    /\ proof_stream.read_index >= 1
    /\ proof_stream.read_index < Len(proof_stream.objects)
    /\ \E jc \in challenges : jc[1] = proof_stream.read_index

PushEffect ==
    outcome'.op = "push"
       => /\ proof_stream'.objects = Append(proof_stream.objects, outcome'.obj)
          /\ proof_stream'.read_index = proof_stream.read_index

PullEffect ==
    (outcome'.op = "pull" /\ outcome'.exc = "")
       => /\ outcome'.obj = proof_stream.objects[proof_stream.read_index + 1]
          /\ proof_stream'.read_index = proof_stream.read_index + 1
          /\ proof_stream'.objects = proof_stream.objects

CursorInRange ==
    /\ 0 <= proof_stream.read_index
    /\ proof_stream.read_index <= Len(proof_stream.objects)

PullsInPushOrder ==
    pulled = SubSeq(proof_stream.objects, created_at + 1, proof_stream.read_index)

\* C5: whatever pushes and pulls were made on a ProofStream created empty,
\* from an object list or by deserialize, 0 <= read_index <= len(objects); a
\* push appends exactly its object and changes neither the objects already
\* there nor read_index; a successful pull returns the object at the cursor,
\* advances read_index by exactly one and leaves objects unchanged; the pulls
\* return the objects in push order.
C5_CursorAndOrder ==
    /\ [](CursorInRange /\ PullsInPushOrder)
    /\ [][PushEffect /\ PullEffect]_vars

\* two pulls have succeeded on a stream that was pushed to, and the cursor is
\* not at the end
C5_Witness ==
    /\ Len(pulled) >= 2
    /\ pulled[1] # pulled[2]
    /\ \E i \in 1..Len(history) : history[i].op = "push"
    /\ outcome.op = "pull"
    /\ outcome.exc = ""

PullAtEndFails ==
    (outcome'.op = "pull" /\ proof_stream.read_index = Len(proof_stream.objects))
       => /\ outcome'.exc = "ValueError"
          /\ proof_stream' = proof_stream

PushThenPullAfterFailure ==
    (/\ Len(history) = HistoryLen
     /\ history[1].op = "pull" /\ history[1].exc # ""
     /\ history[2].op = "push"
     /\ history[3].op = "pull")
       => /\ history[3].exc = ""
          /\ history[3].obj = history[2].obj

\* C6: pull called when read_index equals the number of objects fails with an
\* error and leaves objects and read_index unchanged; a later push followed
\* by a pull then returns the newly pushed object.
C6_PullPastEnd ==
    /\ [][PullAtEndFails]_vars
    /\ []PushThenPullAfterFailure

\* a pull failed at the end of a non-empty stream, then an object was pushed
\* and pulled
C6_Witness ==
    /\ Len(history) = HistoryLen
    /\ history[1].op = "pull" /\ history[1].exc = "ValueError"
    /\ history[2].op = "push"
    /\ history[3].op = "pull" /\ history[3].exc = ""
    /\ Len(proof_stream.objects) >= 2

(***************************************************************************)
(* The Merkle specification (merkle.py): a data sequence is committed to,  *)
(* opened and verified, honestly or with one argument replaced.            *)
(***************************************************************************)
\* the longest data sequence
MaxLeaves == 4

\* the largest first element of a data sequence
MaxStart == 2

\* the data sequences: start, start + step, start + 2 step, ...; step 0 makes
\* all the elements equal, step 1 makes them distinct
DataOf(n, start, step) == List([i \in 1..n |-> (start + step * (i - 1)) % P])

IsPowerOfTwo(n) == n >= 1 /\ AndWithPredIsZero(n)

\* log2 of a power of two
RECURSIVE Log2(_)
Log2(n) == IF n <= 1 THEN 0 ELSE 1 + Log2(n \div 2)

MerkleInit ==
    /\ \E n \in 0..MaxLeaves, start \in 0..MaxStart, step \in 0..1 :
          data = DataOf(n, start, step)
    /\ merkle = NoMerkle
    /\ StreamIdle
    /\ FriIdle
    /\ StarkIdle
    /\ CallIdle

\* root = Merkle.commit(data)
MerkleCommit ==
    LET root == Merkle_commit(data)
    IN  /\ merkle' = [NoMerkle EXCEPT !.op = "commit", !.exc = root.exc,
                                      !.root = root.val]
        /\ UNCHANGED <<data, streamVars, friVars, starkVars, callVars>>

\* path = Merkle.open(index, data)
MerkleOpen(index) ==
    LET path == Merkle_open(index, data)
    IN  /\ merkle' = [NoMerkle EXCEPT !.op = "open", !.index = index,
                                      !.exc = path.exc, !.path = path.val]
        /\ UNCHANGED <<data, streamVars, friVars, starkVars, callVars>>

\* Merkle.verify(Merkle.commit(data), index, Merkle.open(index, data),
\* data[index])
MerkleVerify(index) ==
    LET root == Merkle_commit(data)
        path == Merkle_open(index, data)
        verdict == Merkle_verify(root.val, index, path.val, data[index + 1])
        exc == IF root.exc # "" THEN root.exc
               ELSE IF path.exc # "" THEN path.exc
               ELSE verdict.exc
    IN  /\ index >= 0 /\ index < Len(data)
        /\ merkle' = [NoMerkle EXCEPT !.op = "verify", !.index = index,
                         !.exc = exc,
                         !.root = IF root.exc = "" THEN root.val ELSE <<>>,
                         !.path = IF root.exc = "" /\ path.exc = ""
                                  THEN path.val ELSE <<>>,
                         !.verdict = exc = "" /\ verdict.val]
        /\ UNCHANGED <<data, streamVars, friVars, starkVars, callVars>>

\* a digest with its first byte changed
Flip(digest) == [digest EXCEPT ![1] = (digest[1] + 1) % 256]

\* the digests a forger has at hand to put in the place of digest d
Forgeries(leafs, root, d) == (Range(leafs) \cup {root, Flip(d)}) \ {d}

\* Merkle._verify(root, index, path, leaf) on the honest root, opening and
\* leaf of index i with exactly one of them replaced by another value; kind
\* "opening" is the leaf of index i against the index and opening of j
MerkleVerifyTampered(i, kind) ==
    LET leafs == Merkle_leafs(data)
        root == Merkle__commit(leafs).val
        path == Merkle__open(i, leafs).val
        leaf == leafs[i + 1]
        call(r, j, p, l) ==
            LET verdict == Merkle__verify(r, j, p, l)
            IN  merkle' = [NoMerkle EXCEPT !.op = "_verify", !.index = i,
                              !.exc = verdict.exc, !.root = r, !.path = p,
                              !.verdict = verdict.val, !.tampered = kind]
    IN  /\ IsPowerOfTwo(Len(data)) /\ Len(data) >= 2
        /\ i >= 0 /\ i < Len(data)
        /\ \/ /\ kind = "leaf"
              /\ \E l \in Forgeries(leafs, root, leaf) : call(root, i, path, l)
           \/ /\ kind = "root"
              /\ \E r \in Forgeries(leafs, root, root) : call(r, i, path, leaf)
           \/ /\ kind = "path"
              /\ \E k \in 1..Len(path) :
                    \E d \in Forgeries(leafs, root, path[k]) :
                       call(root, i, [path EXCEPT ![k] = d], leaf)
           \/ /\ kind = "index"
              /\ \E j \in (0..(Len(data) - 1)) \ {i} : call(root, j, path, leaf)
           \/ /\ kind = "opening"
              /\ \E j \in (0..(Len(data) - 1)) \ {i} :
                    call(root, j, Merkle__open(j, leafs).val, leaf)
        /\ UNCHANGED <<data, streamVars, friVars, starkVars, callVars>>

MerkleNext ==
    \/ MerkleCommit
    \/ \E index \in (0 - 1)..MaxLeaves : MerkleOpen(index)
    \/ \E index \in 0..(MaxLeaves - 1) : MerkleVerify(index)
    \/ \E i \in 0..(MaxLeaves - 1) :
          \E kind \in {"leaf", "root", "path", "index", "opening"} :
             MerkleVerifyTampered(i, kind)

SpecMerkle == MerkleInit /\ [][MerkleNext]_vars

(***************************************************************************)
(* Claims about the Merkle tree                                            *)
(***************************************************************************)
\* C7: for every data sequence whose length n is a power of two and every
\* index 0 <= i < n, Merkle.verify(Merkle.commit(data), i,
\* Merkle.open(i, data), data[i]) returns true.
C7_RoundTrip ==
    (/\ merkle.op = "verify"
     /\ IsPowerOfTwo(Len(data))
     /\ merkle.index >= 0 /\ merkle.index < Len(data))
       => merkle.exc = "" /\ merkle.verdict

DistinctLeaves == \A i, j \in 1..Len(data) : i # j => data[i] # data[j]

\* C8: for a tree over n >= 2 distinct leaves and the honest opening of index
\* i, Merkle._verify returns false whenever exactly one of the leaf, the
\* root, an element of the path or the index is replaced by a different
\* value.
C8_TamperDetected ==
    (/\ merkle.op = "_verify"
     /\ merkle.tampered \in {"leaf", "root", "path", "index", "opening"}
     /\ Len(data) >= 2
     /\ DistinctLeaves)
       => merkle.exc = "" /\ ~merkle.verdict

\* an element of a path of two digests was replaced in a tree of four
\* distinct leaves, and _verify returned
C8_Witness ==
    /\ merkle.op = "_verify"
    /\ merkle.tampered = "path"
    /\ Len(data) = 4
    /\ DistinctLeaves
    /\ Len(merkle.path) = 2
    /\ merkle.exc = ""

\* the siblings of the leaf of index i, from the leaf level upward: at level
\* k the root of the 2^k leaves next to the 2^k leaves that hold i
Sibling(leafs, i, k) ==
    LET width == Pow2(k)
        block == ((i \div width) + 1 - 2 * ((i \div width) % 2)) * width
    IN  Merkle__commit(Slice(leafs, block, block + width)).val

\* C9: for every power-of-two number of leaves n = 1, 2, 4, ... and every
\* index 0 <= i < n, Merkle.open(i, data) terminates and returns an
\* authentication path of length exactly log2(n), the sibling digests from
\* the leaf level upward; Merkle.commit terminates for the same inputs.
C9_OpenTerminates ==
    /\ (/\ merkle.op = "open"
        /\ IsPowerOfTwo(Len(data))
        /\ merkle.index >= 0 /\ merkle.index < Len(data))
          => /\ merkle.exc = ""
             /\ Len(merkle.path) = Log2(Len(data))
             /\ \A k \in 1..Len(merkle.path) :
                   merkle.path[k] = Sibling(Merkle_leafs(data), merkle.index, k - 1)
    /\ (merkle.op = "commit" /\ IsPowerOfTwo(Len(data)))
          => merkle.exc = ""

(***************************************************************************)
(* The FRI specification (fri.py): a Fri object the constructor accepted,  *)
(* the codeword of a polynomial of low degree over its domain, Fri.prove   *)
(* on an empty proof stream and Fri.verify on the same stream.             *)
(***************************************************************************)
\* the domain lengths are 8, 16, ..., 2^MaxLogLength
MaxLogLength == 5

\* the largest number of colinearity tests
MaxTests == 2

\* the most coefficients of the polynomial behind the codeword
MaxCoefficients == 3

\* the polynomial 1 + 2 x + 3 x^2 + ... of n coefficients: the zero polynomial
\* for n = 0, a constant for n = 1
PolynomialOf(n) == Polynomial_new(List([i \in 1..n |-> i % P]))

FriInit ==
    /\ \E log_length \in 3..MaxLogLength, expansion_log \in 1..2,
          num_colinearity_tests \in 1..MaxTests, offset \in {1, Field_generator},
          n \in 0..MaxCoefficients :
          LET domain_length == Pow2(log_length)
              instance == Fri_new(offset, Field_primitive_nth_root(domain_length),
                                  domain_length, Pow2(expansion_log),
                                  num_colinearity_tests)
          IN  /\ Fri_init_exc(instance) = ""
              /\ n <= domain_length \div Pow2(expansion_log)
              /\ fri = instance
              /\ codeword = Polynomial_evaluate_domain(PolynomialOf(n),
                                                       Fri_domain(instance))
    /\ fri_stream = ProofStream_new(<<>>)
    /\ fri_proved = NoFriOutcome
    /\ fri_verified = NoFriOutcome
    /\ StreamIdle
    /\ MerkleIdle
    /\ StarkIdle
    /\ CallIdle

\* top_level_indices = fri.prove(codeword, proof_stream)
FriProve ==
    /\ fri_proved.op = ""
    /\ LET proved == Fri_prove(fri, codeword, fri_stream)
       IN  /\ fri_stream' = proved.ps
           /\ fri_proved' = [NoFriOutcome EXCEPT !.op = "prove", !.exc = proved.exc,
                                                 !.indices = proved.val]
    /\ UNCHANGED <<fri, codeword, fri_verified, streamVars, merkleVars, starkVars, callVars>>

\* polynomial_values = fri.verify(proof_stream), on the stream prove wrote
FriVerify ==
    /\ fri_proved.op = "prove"
    /\ fri_proved.exc = ""
    /\ fri_verified.op = ""
    /\ LET verified == Fri_verify(fri, fri_stream)
       IN  /\ fri_stream' = verified.ps
           /\ fri_verified' = [NoFriOutcome EXCEPT !.op = "verify",
                                  !.exc = verified.exc, !.points = verified.val]
    /\ UNCHANGED <<fri, codeword, fri_proved, streamVars, merkleVars, starkVars, callVars>>

FriNext == FriProve \/ FriVerify

SpecFri == FriInit /\ [][FriNext]_vars


(***************************************************************************)
(* Claims about fri.py                                                     *)
(***************************************************************************)
\* the codeword is the evaluation of a polynomial of degree below
\* domain_length / expansion_factor (FriInit draws no other)
LowDegree ==
    \E n \in 0..(fri.domain_length \div fri.expansion_factor) :
        codeword = Polynomial_evaluate_domain(PolynomialOf(n), Fri_domain(fri))

\* C2: completeness of FRI.  For every Fri instance the constructor accepts
\* and every codeword of a polynomial of degree below L / expansion_factor,
\* constant and zero polynomials included, Fri.verify on the stream Fri.prove
\* wrote raises nothing: it completes without a FRI failure.
C2_FriCompleteness ==
    (fri_verified.op = "verify" /\ LowDegree) => fri_verified.exc = ""

\* the pairs (i, c[i]), (i + L/2, c[i + L/2]) of the top-level indices, in
\* the order of the indices
ExpectedPoints(indices, c) ==
    LET half == Len(c) \div 2
    IN  [j \in 1..(2 * Len(indices)) |->
            IF j % 2 = 1
            THEN <<indices[(j + 1) \div 2], c[indices[(j + 1) \div 2] + 1]>>
            ELSE <<indices[j \div 2] + half, c[indices[j \div 2] + half + 1]>>]

\* C10: whenever Fri.verify accepts a proof Fri.prove produced for the
\* codeword c with k colinearity tests, it returns exactly 2k pairs: for each
\* top-level index i that prove returned, (i, c[i]) and (i + L/2, c[i + L/2]),
\* whatever the number of rounds.
C10_VerifyReturnsPoints ==
    (fri_verified.op = "verify" /\ fri_verified.exc = "")
        => /\ Len(fri_verified.points) = 2 * fri.num_colinearity_tests
           /\ fri_verified.points = ExpectedPoints(fri_proved.indices, codeword)

\* the same for the instances of two rounds or more
VerifyReturnsPointsFromTwoRounds ==
    (fri_verified.op = "verify" /\ fri_verified.exc = "" /\ Fri_num_rounds(fri) >= 2)
        => /\ Len(fri_verified.points) = 2 * fri.num_colinearity_tests
           /\ fri_verified.points = ExpectedPoints(fri_proved.indices, codeword)

(***************************************************************************)
(* The STARK specification (fast_stark.py).  A FastStark object is         *)
(* created for a statement, preprocess() and prove() are run on it, and    *)
(* verify() is run on the proof prove returned and on proofs an adversary  *)
(* builds from the transcript of the prover.                               *)
(***************************************************************************)
\* the traces have 3 .. MaxCycles cycles
MaxCycles == 3

\* the statements: one register that counts up from 0, one register that is
\* squared in every cycle starting from 2
Systems == <<"counter", "square">>

\* next - current - 1 and next - current^2, over the variables (x, current,
\* next)
TransitionConstraintsOf(system) ==
    IF system = "counter"
    THEN << << <<<<0, 0, 1>>, 1>>, <<<<0, 1, 0>>, P - 1>>, <<<<0, 0, 0>>, P - 1>> >> >>
    ELSE << << <<<<0, 0, 1>>, 1>>, <<<<0, 2, 0>>, P - 1>> >> >>

\* the degree of the constraints in the trace, which the constructor is told
ConstraintsDegreeOf(system) == IF system = "counter" THEN 1 ELSE 2

TraceOf(system, num_cycles) ==
    IF system = "counter" THEN List([c \in 1..num_cycles |-> <<(c - 1) % P>>])
    ELSE List([c \in 1..num_cycles |-> <<FieldElement_pow(2, Pow2(c - 1))>>])

\* the first and the last cycle of the register are fixed: the input is the
\* first row of the trace, output is the value claimed for the last cycle
BoundaryOf(rows, output) == << <<0, 0, rows[1][1]>>, <<Len(rows) - 1, 0, output>> >>

\* the outputs that are claimed: the one the trace ends with, and one it does
\* not end with
OutputsOf(rows) == {rows[Len(rows)][1], (rows[Len(rows)][1] + 1) % P}

\* the outcomes of os.urandom that are followed, see os_urandom: with 1 the
\* draws are 1, 2, 3, ...; with 18 the folded codewords of the counter over
\* 3 cycles happen to pass the colinearity checks of Fri.verify
Seeds == {1, 18}

StarkInit ==
    /\ \E num_colinearity_checks \in 0..1, num_cycles \in 3..MaxCycles,
          transition_constraints_degree \in 1..2, system \in Range(Systems),
          output \in 0..(P - 1) :
          /\ output \in OutputsOf(TraceOf(system, num_cycles))
          /\ ConstraintsDegreeOf(system) <= transition_constraints_degree
          /\ FastStark_init_exc(4, num_colinearity_checks, 2 * num_colinearity_checks,
                                1, num_cycles, transition_constraints_degree) = ""
          /\ stark = FastStark_new(4, num_colinearity_checks,
                                   2 * num_colinearity_checks, 1, num_cycles,
                                   transition_constraints_degree)
          /\ trace = TraceOf(system, num_cycles)
          /\ transition_constraints = TransitionConstraintsOf(system)
          /\ boundary_constraints = BoundaryOf(TraceOf(system, num_cycles), output)
    /\ preprocessed = NoPreprocessed
    /\ stark_proved = NoStarkProved
    /\ stark_verified = NoStarkVerified
    /\ StreamIdle
    /\ MerkleIdle
    /\ FriIdle
    /\ CallIdle

\* transition_zerofier, transition_zerofier_codeword, transition_zerofier_root
\*     = stark.preprocess()
StarkPreprocess ==
    /\ preprocessed.op = ""
    /\ LET done == FastStark_preprocess(stark)
       IN  preprocessed' = [op |-> "preprocess", exc |-> done.exc, val |-> done.val]
    /\ UNCHANGED <<stark, trace, transition_constraints, boundary_constraints,
                   stark_proved, stark_verified, streamVars, merkleVars, friVars, callVars>>

\* what is known once prove has run with the os.urandom outcomes of seed:
\* the exception or the proof, and the objects pushed
ProveOutcome(seed, proved) ==
    [op |-> "prove", exc |-> proved.exc, proof |-> proved.val,
     objects |-> proved.ps.objects, seed |-> seed, positions |-> proved.positions]

\* what is known once verify has run on proof: the exception or the verdict
VerifyOutcome(proof, kind, verified) ==
    [op |-> "verify", exc |-> verified.exc, verdict |-> verified.val,
     proof |-> proof, forged |-> kind, positions |-> verified.positions,
     read_index |-> verified.ps.read_index]

\* proof = stark.prove(trace, transition_constraints, boundary_constraints,
\*     transition_zerofier, transition_zerofier_codeword)
StarkProve(seed) ==
    /\ preprocessed.op = "preprocess"
    /\ preprocessed.exc = ""
    /\ stark_proved.op = ""
    /\ stark_proved' = ProveOutcome(seed,
           FastStark_prove(stark, trace, transition_constraints, boundary_constraints,
                           preprocessed.val[1], preprocessed.val[2], seed))
    /\ UNCHANGED <<stark, trace, transition_constraints, boundary_constraints,
                   preprocessed, stark_verified, streamVars, merkleVars, friVars, callVars>>

\* verdict = stark.verify(proof, transition_constraints, boundary_constraints,
\*     transition_zerofier_root) on the proof prove returned
StarkVerify ==
    /\ stark_proved.op = "prove"
    /\ stark_proved.exc = ""
    /\ stark_verified.op = ""
    /\ stark_verified' = VerifyOutcome(stark_proved.proof, "",
           FastStark_verify(stark, stark_proved.proof, transition_constraints,
                            boundary_constraints, preprocessed.val[3]))
    /\ UNCHANGED <<stark, trace, transition_constraints, boundary_constraints,
                   preprocessed, stark_proved, streamVars, merkleVars, friVars, callVars>>

\* the adversary's copy of a transcript: the three paths of a colinearity
\* check in a namedtuple that pickle dumps
Repackaged(objects) ==
    List([n \in 1..Len(objects) |->
        IF objects[n].cls = "MerkleProof" THEN [objects[n] EXCEPT !.cls = "Codewords"]
        ELSE objects[n]])

\* the positions of a transcript the adversary works at: its start and end,
\* and the first and the last object of each type
Landmarks(objects) ==
    {0, Len(objects)}
        \cup {n \in 1..Len(objects) :
                 \/ \A m \in 1..(n - 1) : objects[m].tag # objects[n].tag
                 \/ \A m \in (n + 1)..Len(objects) : objects[m].tag # objects[n].tag}

\* an object with its first value changed: a byte of a digest, a field
\* element otherwise
WrongValue(obj) ==
    [obj EXCEPT !.ints[1] = (@ + 1) % (IF obj.tag = "digest" THEN 256 ELSE P)]

\* an object with the last digest of its last authentication path dropped
ShortPath(obj) ==
    [obj EXCEPT !.paths[Len(obj.paths)] = SubSeq(@, 1, Len(@) - 1)]

ForgeKinds == {"prefix", "value", "path"}

\* a forgery can be made at position n of the transcript
CanForge(objects, kind, n) ==
    /\ n \in Landmarks(objects)
    /\ kind = "value" => n >= 1 /\ Len(objects[n].ints) > 0
    /\ kind = "path" => n >= 1 /\ Len(objects[n].paths) > 0

\* the forged proof: the first n objects of the transcript, or the
\* transcript with object n changed
Forged(objects, kind, n) ==
    pickle_dumps(Repackaged(
        IF kind = "prefix" THEN SubSeq(objects, 1, n)
        ELSE IF kind = "value" THEN [objects EXCEPT ![n] = WrongValue(@)]
        ELSE [objects EXCEPT ![n] = ShortPath(@)]))

\* stark.verify on a proof built from the prover's complete transcript
VerifyForged(kind, proof) ==
    VerifyOutcome(proof, kind,
        FastStark_verify(stark, proof, transition_constraints, boundary_constraints,
                         preprocessed.val[3]))

StarkVerifyForged(kind, n) ==
    /\ stark_proved.op = "prove"
    /\ stark_proved.exc \in {"", "PicklingError"}
    /\ stark_verified.op = ""
    /\ CanForge(stark_proved.objects, kind, n)
    /\ stark_verified' = VerifyForged(kind, Forged(stark_proved.objects, kind, n))
    /\ UNCHANGED <<stark, trace, transition_constraints, boundary_constraints,
                   preprocessed, stark_proved, streamVars, merkleVars, friVars, callVars>>

StarkNext ==
    \/ StarkPreprocess
    \/ \E seed \in Seeds : StarkProve(seed)
    \/ StarkVerify
    \/ \E kind \in ForgeKinds, n \in 0..Len(stark_proved.objects) :
           StarkVerifyForged(kind, n)

SpecStark == StarkInit /\ [][StarkNext]_vars


\* the trace satisfies every boundary constraint
BoundaryHolds ==
    \A n \in 1..Len(boundary_constraints) :
        trace[boundary_constraints[n][1] + 1][boundary_constraints[n][2] + 1]
            = boundary_constraints[n][3]

\* every transition constraint vanishes on every pair of consecutive rows
TransitionsHold ==
    \A c \in 1..(Len(trace) - 1), n \in 1..Len(transition_constraints) :
        MPolynomial_evaluate(transition_constraints[n],
            <<FieldElement_pow(stark.omicron, c - 1)>> \o trace[c] \o trace[c + 1])
            = Ok(0)

\* C1: completeness of the STARK: when the trace satisfies the transition
\* and the boundary constraints, prove returns a proof whatever the random
\* randomizers are, and verify returns true on the proof prove returned.
C1_StarkCompleteness ==
    (BoundaryHolds /\ TransitionsHold) =>
        /\ stark_proved.op = "prove" => stark_proved.exc = ""
        /\ (stark_verified.op = "verify" /\ stark_verified.forged = "") =>
               (stark_verified.exc = "" /\ stark_verified.verdict)

\* C3: verify never raises: on every proof it can deserialize, the proof
\* prove returned and the proofs built from the prover's transcript, verify
\* returns a verdict.
C3_VerifyNeverRaises ==
    stark_verified.op = "verify" => stark_verified.exc = ""


MaxExpansionFactor == 8

MaxColinearityChecks == 2

\* FieldBits + 1, so that a security level above the bits of p is drawn
MaxSecurityLevel == 10

ConstructorInit ==
    /\ \E expansion_factor \in 0..MaxExpansionFactor,
          num_colinearity_checks \in (0 - 1)..MaxColinearityChecks,
          security_level \in (0 - 1)..MaxSecurityLevel :
          called = [fn |-> "FastStark",
                    args |-> <<expansion_factor, num_colinearity_checks,
                               security_level, 1, 3, 2>>]
    /\ returned = NoResult
    /\ StreamIdle
    /\ MerkleIdle
    /\ FriIdle
    /\ StarkIdle

\* what the constructor leaves: the exception, or the object
Constructed(args, exc) ==
    [done |-> TRUE, exc |-> exc,
     val |-> IF exc # "" THEN NoStark
             ELSE FastStark_new(args[1], args[2], args[3], args[4], args[5], args[6])]

\* FastStark(field, expansion_factor, num_colinearity_checks, security_level,
\*     num_registers, num_cycles, transition_constraints_degree)
FastStarkNew ==
    /\ called.fn = "FastStark"
    /\ ~returned.done
    /\ returned' = Constructed(called.args,
           FastStark_init_exc(called.args[1], called.args[2], called.args[3],
                              called.args[4], called.args[5], called.args[6]))
    /\ UNCHANGED <<called, streamVars, merkleVars, friVars, starkVars>>

SpecConstructor == ConstructorInit /\ [][FastStarkNew]_vars

\* an argument combination the constructor is to reject
InvalidParameters(args) ==
    \/ ~IsPowerOfTwo(args[1])
    \/ args[1] < 4
    \/ 2 * args[2] < args[3]
    \/ FieldBits < args[3]
    \/ args[2] <= 0
    \/ args[3] <= 0

\* C12: the constructor rejects every invalid parameter combination with an
\* error and creates no FastStark object: expansion_factor not a power of
\* two or below 4, 2 * num_colinearity_checks < security_level, p with fewer
\* bits than security_level, num_colinearity_checks or security_level not
\* positive.
C12_ConstructorRejects ==
    (called.fn = "FastStark" /\ returned.done /\ InvalidParameters(called.args)) =>
        (returned.exc # "" /\ returned.val = NoStark)


(***************************************************************************)
(* Polynomial.is_colinear (univariate.py) on three points with small       *)
(* coordinates.                                                            *)
(***************************************************************************)
MaxCoordinate == 3

PointsOf(xs, ys) == List([i \in 1..Len(xs) |-> <<xs[i], ys[i]>>])

Xs(points) == List([i \in 1..Len(points) |-> points[i][1]])

Ys(points) == List([i \in 1..Len(points) |-> points[i][2]])

ColinearInit ==
    /\ \E xs, ys \in [1..3 -> 0..MaxCoordinate] :
          called = [fn |-> "is_colinear", args |-> <<PointsOf(xs, ys)>>]
    /\ returned = NoResult
    /\ StreamIdle
    /\ MerkleIdle
    /\ FriIdle
    /\ StarkIdle

\* Polynomial.is_colinear(points): interpolate raises ValueError (divide by
\* zero) when two points have the same x
IsColinear ==
    /\ called.fn = "is_colinear"
    /\ ~returned.done
    /\ returned' =
           IF InterpolateRaises(Xs(called.args[1]))
           THEN [done |-> TRUE, exc |-> "ValueError", val |-> FALSE]
           ELSE [done |-> TRUE, exc |-> "",
                 val |-> Polynomial_is_colinear(called.args[1])]
    /\ UNCHANGED <<called, streamVars, merkleVars, friVars, starkVars>>

SpecColinear == ColinearInit /\ [][IsColinear]_vars

\* C13: is_colinear returns true if and only if the interpolant through the
\* points has degree <= 1; so it returns true for three points with
\* pairwise distinct x that share the same y.
C13_IsColinear ==
    (called.fn = "is_colinear" /\ returned.done
        /\ ~InterpolateRaises(Xs(called.args[1]))) =>
        /\ returned.exc = ""
        /\ returned.val <=>
               Polynomial_degree(Polynomial_interpolate(Xs(called.args[1]),
                                                        Ys(called.args[1]))) <= 1
        /\ (\A i \in 1..3 : called.args[1][i][2] = called.args[1][1][2]) => returned.val


(***************************************************************************)
(* ntt and intt (ntt.py) on the lists of 1, 2, ..., 2^MaxLogN elements and *)
(* every primitive root of unity of the order of their length.             *)
(***************************************************************************)
MaxLogN == 2

\* the field elements the lists are made of
Elements == {0, 1, P - 1}

\* the primitive n-th roots of unity of the field, n a power of two
PrimitiveRoots(n) ==
    {w \in 1..(P - 1) :
        /\ FieldElement_pow(w, n) = 1
        /\ n > 1 => FieldElement_pow(w, n \div 2) # 1}

NttInit ==
    /\ \E j \in 0..MaxLogN :
          \E xs \in [1..Pow2(j) -> Elements], w \in PrimitiveRoots(Pow2(j)),
             fn \in {"ntt", "intt"} :
             called = [fn |-> fn, args |-> <<w, List(xs)>>]
    /\ returned = NoResult
    /\ StreamIdle
    /\ MerkleIdle
    /\ FriIdle
    /\ StarkIdle

Returned(out) == [done |-> TRUE, exc |-> out.exc, val |-> out.val]

\* ntt(w, xs)
Ntt ==
    /\ called.fn = "ntt"
    /\ ~returned.done
    /\ returned' = Returned(ntt(called.args[1], called.args[2]))
    /\ UNCHANGED <<called, streamVars, merkleVars, friVars, starkVars>>

\* intt(w, values) on values = ntt(w, xs), which raises what ntt raised
InttOf(w, values) == IF values.exc # "" THEN values ELSE intt(w, values.val)

\* intt(w, ntt(w, xs))
InttNtt ==
    /\ called.fn = "intt"
    /\ ~returned.done
    /\ returned' = Returned(InttOf(called.args[1],
                                   ntt(called.args[1], called.args[2])))
    /\ UNCHANGED <<called, streamVars, merkleVars, friVars, starkVars>>

NttNext == Ntt \/ InttNtt

SpecNtt == NttInit /\ [][NttNext]_vars

\* C14: for a list xs of n >= 2 elements, n a power of two, and a primitive
\* n-th root of unity w, ntt(w, xs)[i] is the value at w^i of the polynomial
\* whose coefficients are xs.
C14_NttEvaluates ==
    (called.fn = "ntt" /\ returned.done /\ Len(called.args[2]) >= 2) =>
        /\ returned.exc = ""
        /\ Len(returned.val) = Len(called.args[2])
        /\ \A i \in 0..(Len(called.args[2]) - 1) :
               returned.val[i + 1]
                   = Polynomial_evaluate(Polynomial_new(called.args[2]),
                                         FieldElement_pow(called.args[1], i))

\* ntt has returned the transform of a list of 4 elements that are not all
\* equal
C14_Witness ==
    /\ called.fn = "ntt"
    /\ returned.done
    /\ Len(called.args[2]) = 4
    /\ called.args[2][1] # called.args[2][2]
    /\ returned.exc = ""

\* C15: NTT round trip: intt(w, ntt(w, xs)) returns xs for every list whose
\* length n is a power of two and every primitive n-th root of unity w.
C15_NttRoundTrip ==
    (called.fn = "intt" /\ returned.done) =>
        (returned.exc = "" /\ returned.val = called.args[2])

\* intt has returned from the transform of a list of 4 elements that is not
\* the list itself
C15_Witness ==
    /\ called.fn = "intt"
    /\ returned.done
    /\ Len(called.args[2]) = 4
    /\ ntt(called.args[1], called.args[2]).val # called.args[2]
    /\ returned.exc = ""


(***************************************************************************)
(* fast_coset_divide (ntt.py) on products a * b, with a of degree up to    *)
(* MaxQuotientDegree, b of degree up to 1, and the primitive roots of      *)
(* order 16: the schoolbook path is taken when a * b has a degree below 8, *)
(* the NTT path from degree 8 on.                                          *)
(***************************************************************************)
MaxQuotientDegree == 8

MaxOffset == 3

\* c * x^d + e
Binomial(d, c, e) ==
    List([i \in 1..(d + 1) |-> IF i = d + 1 THEN c ELSE IF i = 1 THEN e ELSE 0])

CosetDivideInit ==
    /\ \E d \in 0..MaxQuotientDegree, c \in 1..2, e \in 0..1, b0, b1 \in 0..2,
          offset \in 1..MaxOffset, root \in PrimitiveRoots(16) :
          /\ Polynomial_new(<<b0, b1>>) # <<>>
          /\ called = [fn |-> "fast_coset_divide",
                       args |-> <<Binomial(d, c, e), Polynomial_new(<<b0, b1>>),
                                  offset, root, 16>>]
    /\ returned = NoResult
    /\ StreamIdle
    /\ MerkleIdle
    /\ FriIdle
    /\ StarkIdle

\* fast_coset_divide(a * b, b, offset, root, n)
CosetDivide ==
    /\ called.fn = "fast_coset_divide"
    /\ ~returned.done
    /\ returned' = Returned(
           fast_coset_divide(Polynomial_mul(called.args[1], called.args[2]),
                             called.args[2], called.args[3], called.args[4],
                             called.args[5]))
    /\ UNCHANGED <<called, streamVars, merkleVars, friVars, starkVars>>

SpecCosetDivide == CosetDivideInit /\ [][CosetDivide]_vars

\* C16: for non-zero polynomials a and b, a non-zero offset and a primitive
\* root of order n > deg(a * b), fast_coset_divide(a * b, b, offset, root, n)
\* returns a, on the schoolbook path and on the NTT path.
C16_CosetDivideInverts ==
    (called.fn = "fast_coset_divide" /\ returned.done) =>
        (returned.exc = "" /\ returned.val = called.args[1])

(***************************************************************************)
(* univariate.py: the constructor and the arithmetic of Polynomial, each    *)
(* applied to polynomials of at most MaxPolynomialLength coefficients.      *)
(***************************************************************************)
MaxPolynomialLength == 3

MaxExponent == 3

\* the coefficient lists handed to the constructor, trailing zeros included
CoefficientLists ==
    UNION {{List(f) : f \in [1..n -> Elements]} : n \in 0..MaxPolynomialLength}

\* the Polynomial objects: what the constructor makes of a coefficient list
Polynomials == {Polynomial_new(c) : c \in CoefficientLists}

\* Polynomial.__eq__ on two polynomials: the same number of coefficients and
\* the same coefficient at every index
Polynomial_eq(self, other) ==
    IF Len(self) # Len(other) THEN FALSE
    ELSE \A i \in 1..Len(self) : self[i] = other[i]

\* a / b: divmod raises ValueError for b == 0, the assertion fails unless the
\* remainder is zero
Polynomial_truediv_outcome(self, other) ==
    IF Polynomial_degree(other) = -1 THEN Raise("ValueError")
    ELSE IF TruedivRaises(self, other) THEN Raise("AssertionError")
    ELSE Ok(Polynomial_trim(Polynomial_truediv(self, other)))

UnaryOps == {"__init__", "__neg__"}

BinaryOps == {"__add__", "__sub__", "__mul__", "__divmod__", "__truediv__", "__mod__", "__eq__", "mul_truediv"}

PolynomialInit ==
    /\ \/ \E fn \in UnaryOps, c \in CoefficientLists :
             called = [fn |-> fn, args |-> <<c>>]
       \/ \E fn \in BinaryOps, a \in Polynomials, b \in Polynomials :
             called = [fn |-> fn, args |-> <<a, b>>]
       \/ \E a \in Polynomials, exponent \in 0..MaxExponent :
             called = [fn |-> "__pow__", args |-> <<a, exponent>>]
       \/ \E a \in Polynomials, factor \in Elements :
             called = [fn |-> "scale", args |-> <<a, factor>>]
       \/ \E n \in 0..MaxPolynomialLength :
             \E domain \in [1..n -> Elements], values \in [1..n -> Elements] :
                called = [fn |-> "interpolate", args |-> <<List(domain), List(values)>>]
       \/ \E domain \in CoefficientLists :
             called = [fn |-> "zerofier_domain", args |-> <<domain>>]
    /\ returned = NoResult
    /\ StreamIdle
    /\ MerkleIdle
    /\ FriIdle
    /\ StarkIdle

\* the call returns out
Returns(out) ==
    /\ ~returned.done
    /\ returned' = Returned(out)
    /\ UNCHANGED <<called, streamVars, merkleVars, friVars, starkVars>>

PolynomialNew ==
    /\ called.fn = "__init__"
    /\ Returns(Ok(Polynomial_new(called.args[1])))

\* -Polynomial(c)
PolynomialNeg ==
    /\ called.fn = "__neg__"
    /\ Returns(Ok(Polynomial_neg(Polynomial_new(called.args[1]))))

PolynomialAdd ==
    /\ called.fn = "__add__"
    /\ Returns(Ok(Polynomial_add(called.args[1], called.args[2])))

PolynomialSub ==
    /\ called.fn = "__sub__"
    /\ Returns(Ok(Polynomial_sub(called.args[1], called.args[2])))

PolynomialMul ==
    /\ called.fn = "__mul__"
    /\ Returns(Ok(Polynomial_mul(called.args[1], called.args[2])))

PolynomialDivmod ==
    /\ called.fn = "__divmod__"
    /\ Returns(IF Polynomial_degree(called.args[2]) = -1 THEN Raise("ValueError")
               ELSE Ok(Polynomial_divmod(called.args[1], called.args[2])))

PolynomialTruediv ==
    /\ called.fn = "__truediv__"
    /\ Returns(Polynomial_truediv_outcome(called.args[1], called.args[2]))

PolynomialMod ==
    /\ called.fn = "__mod__"
    /\ Returns(IF Polynomial_degree(called.args[2]) = -1 THEN Raise("ValueError")
           ELSE Ok(Polynomial_trim(Polynomial_mod(called.args[1], called.args[2]))))

PolynomialEq ==
    /\ called.fn = "__eq__"
    /\ Returns(Ok(Polynomial_eq(called.args[1], called.args[2])))

\* (a * b) / a
PolynomialMulTruediv ==
    /\ called.fn = "mul_truediv"
    /\ Returns(Polynomial_truediv_outcome(Polynomial_mul(called.args[1], called.args[2]),
                                      called.args[1]))

PolynomialPow ==
    /\ called.fn = "__pow__"
    /\ Returns(Ok(Polynomial_pow(called.args[1], called.args[2])))

PolynomialScale ==
    /\ called.fn = "scale"
    /\ Returns(Ok(Polynomial_scale(called.args[1], called.args[2])))

\* the lists have the same length here; ValueError on an empty domain and on
\* a repeated point
PolynomialInterpolate ==
    /\ called.fn = "interpolate"
    /\ Returns(IF InterpolateRaises(called.args[1]) THEN Raise("ValueError")
           ELSE Ok(Polynomial_interpolate(called.args[1], called.args[2])))

PolynomialZerofierDomain ==
    /\ called.fn = "zerofier_domain"
    /\ Returns(IF ZerofierDomainRaises(called.args[1]) THEN Raise("IndexError")
           ELSE Ok(Polynomial_zerofier_domain(called.args[1])))

PolynomialNext ==
    \/ PolynomialNew
    \/ PolynomialNeg
    \/ PolynomialAdd
    \/ PolynomialSub
    \/ PolynomialMul
    \/ PolynomialDivmod
    \/ PolynomialTruediv
    \/ PolynomialMod
    \/ PolynomialEq
    \/ PolynomialMulTruediv
    \/ PolynomialPow
    \/ PolynomialScale
    \/ PolynomialInterpolate
    \/ PolynomialZerofierDomain

SpecPolynomial == PolynomialInit /\ [][PolynomialNext]_vars

\* C17: for every polynomial a and every non-zero polynomial b, divmod(a, b)
\* returns (q, r) with q * b + r = a and deg(r) < deg(b); (a * b) / a returns
\* b for non-zero a; and a / b fails with the AssertionError exactly when the
\* remainder of divmod(a, b) is not zero.
C17_DivmodIsEuclidean ==
    (returned.done /\ called.fn \in {"__divmod__", "__truediv__", "mul_truediv"}
       /\ called.args[2] # <<>>) =>
        LET a == called.args[1]
            b == called.args[2]
        IN  /\ called.fn = "__divmod__" =>
                /\ returned.exc = ""
                /\ Polynomial_add(Polynomial_mul(returned.val[1], b), returned.val[2]) = a
                /\ Polynomial_degree(returned.val[2]) < Polynomial_degree(b)
            /\ (called.fn = "mul_truediv" /\ a # <<>>) =>
                (returned.exc = "" /\ returned.val = b)
            /\ called.fn = "__truediv__" =>
                /\ returned.exc \in {"", "AssertionError"}
                /\ (returned.exc = "AssertionError") <=> (Polynomial_divmod(a, b)[2] # <<>>)
                /\ returned.exc = "" => Polynomial_mul(returned.val, b) = a

\* a division with a remainder that is not zero, and one that is exact, were each made
C17_Witness ==
    /\ returned.done
    /\ called.fn = "__divmod__"
    /\ Polynomial_degree(called.args[2]) >= 1
    /\ Polynomial_degree(called.args[1]) > Polynomial_degree(called.args[2])
    /\ returned.exc = ""
    /\ returned.val[2] # <<>>
    /\ Polynomial_degree(returned.val[1]) >= 1

\* no trailing zero coefficient
Canonical(p) == Len(p) = 0 \/ p[Len(p)] # 0

\* C18: every Polynomial produced by the constructor or by +, -, unary -, *,
\* divmod, /, %, **, scale, interpolate or zerofier_domain has no trailing
\* zero coefficient, so that the zero polynomial has an empty coefficient list
\* and degree -1; and == returns true exactly when the coefficient lists of
\* the two polynomials are equal.
C18_CanonicalForm ==
    (returned.done /\ returned.exc = ""
       /\ called.fn \in (UnaryOps \cup BinaryOps \cup {"__pow__", "scale", "interpolate", "zerofier_domain"})) =>
        /\ called.fn = "__divmod__" =>
              (Canonical(returned.val[1]) /\ Canonical(returned.val[2]))
        /\ called.fn = "__eq__" =>
              (returned.val <=> (called.args[1] = called.args[2]))
        /\ called.fn \notin {"__divmod__", "__eq__"} => Canonical(returned.val)
        /\ called.fn = "__init__" =>
              /\ Len(returned.val) <= Len(called.args[1])
              /\ \A i \in 1..Len(called.args[1]) :
                    called.args[1][i] = (IF i <= Len(returned.val) THEN returned.val[i] ELSE 0)
              /\ (\A i \in 1..Len(called.args[1]) : called.args[1][i] = 0) =>
                    (returned.val = <<>> /\ Polynomial_degree(returned.val) = -1)

\* scale by zero dropped the higher coefficients of a polynomial and kept a constant
C18_Witness ==
    /\ returned.done
    /\ called.fn = "scale"
    /\ returned.exc = ""
    /\ Len(called.args[1]) >= 2
    /\ Len(returned.val) = 1

(***************************************************************************)
(* multivariate.py: the sum and the product of two polynomials over the    *)
(* same variables, and the lift of a univariate polynomial, each evaluated *)
(* at a point.                                                             *)
(***************************************************************************)
MaxTerms == 2

MaxVariableIndex == 2

\* the numbers of variables of the polynomials that are added and multiplied
Arities == {1, 2}

\* the place of an exponent vector among the keys: the keys of a dictionary
\* are distinct, and one insertion order is followed
KeyRank(k) == IF Len(k) = 1 THEN k[1] ELSE k[1] + 2 * k[2]

\* the dictionaries of at most MaxTerms items over n variables, exponents 0
\* and 1, no coefficient zero; and the constant 0 over n variables, which is
\* what a dictionary is before trim when its coefficients cancel
MPolynomials(n) ==
    LET Items == {<<List(k), v>> : k \in [1..n -> 0..1], v \in Elements \ {0}}
    IN  {List(f) : f \in {h \in UNION {[1..m -> Items] : m \in 0..MaxTerms} :
                           \A a, b \in DOMAIN h : a < b => KeyRank(h[a][1]) < KeyRank(h[b][1])}}
        \cup {<< <<List([i \in 1..n |-> 0]), 0>> >>}

MultivariateInit ==
    /\ \/ \E n \in Arities, fn \in {"add_evaluate", "mul_evaluate"} :
             \E f \in MPolynomials(n), g \in MPolynomials(n), x \in [1..n -> Elements] :
                called = [fn |-> fn, args |-> <<f, g, List(x)>>]
       \/ \E p \in Polynomials, variable_index \in 0..MaxVariableIndex :
             \E x \in [1..(variable_index + 1) -> Elements] :
                called = [fn |-> "lift", args |-> <<p, variable_index, List(x)>>]
    /\ returned = NoResult
    /\ StreamIdle
    /\ MerkleIdle
    /\ FriIdle
    /\ StarkIdle

\* (f + g).evaluate(x)
MPolynomialAddEvaluate ==
    /\ called.fn = "add_evaluate"
    /\ Returns(MPolynomial_evaluate(MPolynomial_add(called.args[1], called.args[2]),
                                called.args[3]))

\* (f * g).evaluate(x)
MPolynomialMulEvaluate ==
    /\ called.fn = "mul_evaluate"
    /\ Returns(MPolynomial_evaluate(MPolynomial_mul(called.args[1], called.args[2]),
                                called.args[3]))

\* lifted = MPolynomial.lift(p, i), and then lifted.evaluate(x)
Lifted(lifted, point) == Ok([lifted |-> lifted, evaluated |-> MPolynomial_evaluate(lifted, point)])

MPolynomialLift ==
    /\ called.fn = "lift"
    /\ Returns(Lifted(MPolynomial_lift(called.args[1], called.args[2]), called.args[3]))

MultivariateNext == MPolynomialAddEvaluate \/ MPolynomialMulEvaluate \/ MPolynomialLift

SpecMultivariate == MultivariateInit /\ [][MultivariateNext]_vars

\* C19: for polynomials f and g over the same n >= 1 variables (g = -f and
\* the zero polynomial included) and every point x of n field elements,
\* (f + g).evaluate(x) returns f.evaluate(x) + g.evaluate(x) and
\* (f * g).evaluate(x) returns f.evaluate(x) * g.evaluate(x).
C19_SumAndProductEvaluate ==
    (returned.done /\ called.fn \in {"add_evaluate", "mul_evaluate"}
       /\ MPolynomial_num_variables(called.args[1]) = Len(called.args[3])
       /\ MPolynomial_num_variables(called.args[2]) = Len(called.args[3])) =>
        LET fx == MPolynomial_evaluate(called.args[1], called.args[3]).val
            gx == MPolynomial_evaluate(called.args[2], called.args[3]).val
        IN  /\ returned.exc = ""
            /\ called.fn = "add_evaluate" => returned.val = Field_add(fx, gx)
            /\ called.fn = "mul_evaluate" => returned.val = Field_multiply(fx, gx)

\* C20: for every univariate polynomial p (the zero polynomial and zero inner
\* coefficients included), every index i >= 0 and every point of i + 1 field
\* elements, MPolynomial.lift(p, i) has i + 1 variables and no zero
\* coefficient, and its value at the point is p.evaluate(x), x the i-th
\* coordinate of the point.
C20_LiftEvaluates ==
    (returned.done /\ called.fn = "lift") =>
        /\ returned.exc = ""
        /\ MPolynomial_num_variables(returned.val.lifted) = called.args[2] + 1
        /\ MPolynomial_trim(returned.val.lifted) = returned.val.lifted
        /\ returned.val.evaluated.exc = ""
        /\ returned.val.evaluated.val =
               Polynomial_evaluate(called.args[1], called.args[3][called.args[2] + 1])

(***************************************************************************)
(* fast_stark.py: max_degree of lists of transition constraints over the   *)
(* variables (x, current, next) of one register.                           *)
(***************************************************************************)
MaxXDegree == 2

\* the exponent vectors of the monomials: x up to MaxXDegree, the two trace
\* variables up to 1
MonomialExponents == {<<a, b, c>> : a \in 0..MaxXDegree, b \in 0..1, c \in 0..1}

\* the constraints of one monomial and of two monomials, coefficient 1
ConstraintsOfOne == {<< <<k, 1>> >> : k \in MonomialExponents}

ConstraintsOfTwo ==
    {<< <<pair[1], 1>>, <<pair[2], 1>> >> :
        pair \in {q \in MonomialExponents \X MonomialExponents : q[1] # q[2]}}

\* one constraint, or two constraints of one monomial each
ConstraintLists ==
    {<<a>> : a \in ConstraintsOfOne \cup ConstraintsOfTwo}
        \cup {<<a, b>> : a \in ConstraintsOfOne, b \in ConstraintsOfOne}

MaxDegreeInit ==
    /\ \E num_colinearity_checks \in 0..1, num_cycles \in 2..MaxCycles,
          constraints \in ConstraintLists :
          called = [fn |-> "max_degree",
                    args |-> <<FastStark_new(4, num_colinearity_checks,
                                             2 * num_colinearity_checks, 1, num_cycles, 2),
                               constraints>>]
    /\ returned = NoResult
    /\ StreamIdle
    /\ MerkleIdle
    /\ FriIdle
    /\ StarkIdle

\* stark.max_degree(transition_constraints)
MaxDegree ==
    /\ called.fn = "max_degree"
    /\ Returns(IF MaxDegreeRaises(called.args[2]) THEN Raise("ValueError")
               ELSE Ok(FastStark_max_degree(called.args[1], called.args[2])))

SpecMaxDegree == MaxDegreeInit /\ [][MaxDegree]_vars

\* the smallest integer of the form 2^k - 1, k >= 0, that is at least md
SmallestAllOnes(md) ==
    Pow2(CHOOSE k \in 0..32 :
             /\ Pow2(k) - 1 >= md
             /\ \A j \in 0..(k - 1) : Pow2(j) - 1 < md) - 1

\* C21: for every list of transition constraints, max_degree returns the
\* smallest integer of the form 2^k - 1 (k >= 0) that is greater than or
\* equal to the maximum transition-quotient degree bound.
C21_MaxDegree ==
    (returned.done /\ called.fn = "max_degree") =>
        /\ returned.exc = ""
        /\ returned.val =
               SmallestAllOnes(MaxOf(FastStark_transition_quotient_degree_bounds(
                                         called.args[1], called.args[2])))

(***************************************************************************)
(* fri.py: Fri.commit on an empty proof stream, for the Fri objects and    *)
(* the codewords of SpecFri.                                               *)
(***************************************************************************)
FriCommitInit ==
    /\ \E log_length \in 3..MaxLogLength, expansion_log \in 1..2,
          num_colinearity_tests \in 1..MaxTests, offset \in {1, Field_generator},
          n \in 0..MaxCoefficients :
          LET domain_length == Pow2(log_length)
              instance == Fri_new(offset, Field_primitive_nth_root(domain_length),
                                  domain_length, Pow2(expansion_log),
                                  num_colinearity_tests)
          IN  /\ Fri_init_exc(instance) = ""
              /\ called = [fn |-> "commit",
                           args |-> <<instance,
                                      Polynomial_evaluate_domain(PolynomialOf(n),
                                                                 Fri_domain(instance))>>]
    /\ returned = NoResult
    /\ StreamIdle
    /\ MerkleIdle
    /\ FriIdle
    /\ StarkIdle

\* what fri.commit(codeword, proof_stream) returns and what it leaves in the
\* proof stream
Committed(done) ==
    [exc |-> done.exc, val |-> [codewords |-> done.val, objects |-> done.ps.objects]]

\* codewords = fri.commit(codeword, ProofStream())
FriCommit ==
    /\ called.fn = "commit"
    /\ Returns(Committed(Fri_commit(called.args[1], called.args[2], ProofStream_new(<<>>))))

SpecFriCommit == FriCommitInit /\ [][FriCommit]_vars

\* alpha_j: the challenge sampled from the stream once root j is pushed
AlphaOf(objects, j) ==
    Field_sample(ProofStream_prover_fiat_shamir(ProofStream_new(SubSeq(objects, 1, j + 1))))

\* C22: in every fold round j of Fri.commit the next codeword is
\* c_{j+1}[i] = 1/2 * ((1 + alpha_j / x_i) * c_j[i] + (1 - alpha_j / x_i) *
\* c_j[i + n_j / 2]) with x_i = offset^(2^j) * omega^(2^j * i), the point of
\* index i that Fri.verify uses in round j.
C22_FoldOnVerifierDomain ==
    (returned.done /\ called.fn = "commit" /\ returned.exc = "") =>
        LET c == returned.val.codewords
            offset == called.args[1].offset
            omega == called.args[1].omega
        IN  \A j \in 0..(Len(c) - 2) :
                \A i \in 0..((Len(c[j + 1]) \div 2) - 1) :
                    LET x == Field_multiply(FieldElement_pow(offset, Pow2(j)),
                                            FieldElement_pow(omega, Pow2(j) * i))
                        ratio == Field_divide(AlphaOf(returned.val.objects, j), x)
                    IN  c[j + 2][i + 1] =
                            Field_divide(
                                Field_add(
                                    Field_multiply(Field_add(1, ratio), c[j + 1][i + 1]),
                                    Field_multiply(Field_subtract(1, ratio),
                                                   c[j + 1][i + 1 + (Len(c[j + 1]) \div 2)])),
                                2)

\* the same with the points Fri.commit folds over: x_i = offset * omega^(2^j * i)
FoldOnProverDomain ==
    (returned.done /\ called.fn = "commit" /\ returned.exc = "") =>
        LET c == returned.val.codewords
            offset == called.args[1].offset
            omega == called.args[1].omega
        IN  \A j \in 0..(Len(c) - 2) :
                \A i \in 0..((Len(c[j + 1]) \div 2) - 1) :
                    LET x == Field_multiply(offset, FieldElement_pow(omega, Pow2(j) * i))
                        ratio == Field_divide(AlphaOf(returned.val.objects, j), x)
                    IN  c[j + 2][i + 1] =
                            Field_divide(
                                Field_add(
                                    Field_multiply(Field_add(1, ratio), c[j + 1][i + 1]),
                                    Field_multiply(Field_subtract(1, ratio),
                                                   c[j + 1][i + 1 + (Len(c[j + 1]) \div 2)])),
                                2)

\* C23: Fri.commit pushes exactly num_rounds Merkle roots, root j committing
\* the codeword of length L / 2^j, followed by exactly one codeword in the
\* clear, which is the one obtained after num_rounds halvings:
\* L = 2^num_rounds * len(final codeword).
C23_CommitTranscript ==
    (returned.done /\ called.fn = "commit" /\ returned.exc = "") =>
        LET objects == returned.val.objects
            r == Fri_num_rounds(called.args[1])
            L == called.args[1].domain_length
        IN  /\ Len(objects) = r + 1
            /\ \A j \in 0..(r - 1) :
                  /\ objects[j + 1].tag = "digest"
                  /\ Len(returned.val.codewords[j + 1]) * Pow2(j) = L
                  /\ objects[j + 1].ints = Merkle_commit(returned.val.codewords[j + 1]).val
            /\ objects[r + 1].tag = "codeword"
            /\ L = Pow2(r) * Len(objects[r + 1].ints)

\* the transcript as Fri.commit writes it: the codeword in the clear is the
\* one root num_rounds - 1 commits, L = 2^(num_rounds - 1) * len(final codeword)
CommitSendsLastCommitted ==
    (returned.done /\ called.fn = "commit" /\ returned.exc = "") =>
        LET objects == returned.val.objects
            r == Fri_num_rounds(called.args[1])
            L == called.args[1].domain_length
        IN  /\ Len(objects) = r + 1
            /\ \A j \in 0..(r - 1) :
                  /\ objects[j + 1].tag = "digest"
                  /\ Len(returned.val.codewords[j + 1]) * Pow2(j) = L
                  /\ objects[j + 1].ints = Merkle_commit(returned.val.codewords[j + 1]).val
            /\ objects[r + 1].tag = "codeword"
            /\ objects[r + 1].ints = returned.val.codewords[r]
            /\ L = Pow2(r - 1) * Len(objects[r + 1].ints)

(***************************************************************************)
(* fri.py: Fri.sample_indices on its own, and the two calls of it that     *)
(* Fri.prove and Fri.verify make on one transcript.                        *)
(***************************************************************************)
MaxSeed == 3

MaxSize == 8

MaxNumber == 3

SampleIndicesInit ==
    /\ \/ \E s \in 0..MaxSeed, size \in 1..MaxSize, reduced_size \in 0..MaxSize,
             number \in 0..MaxNumber :
             called = [fn |-> "sample_indices",
                       args |-> <<<<s, 7>>, size, reduced_size, number>>]
       \/ \E log_length \in 3..MaxLogLength, expansion_log \in 1..2,
             num_colinearity_tests \in 1..MaxTests, offset \in {1, Field_generator},
             n \in 0..MaxCoefficients :
             LET domain_length == Pow2(log_length)
                 instance == Fri_new(offset, Field_primitive_nth_root(domain_length),
                                     domain_length, Pow2(expansion_log),
                                     num_colinearity_tests)
             IN  /\ Fri_init_exc(instance) = ""
                 /\ called = [fn |-> "prove_and_verify",
                              args |-> <<instance,
                                         Polynomial_evaluate_domain(PolynomialOf(n),
                                                                    Fri_domain(instance))>>]
    /\ returned = NoResult
    /\ StreamIdle
    /\ MerkleIdle
    /\ FriIdle
    /\ StarkIdle

\* Fri.sample_indices(seed, size, reduced_size, number)
SampleIndices ==
    /\ called.fn = "sample_indices"
    /\ Returns(Fri_sample_indices(called.args[1], called.args[2], called.args[3],
                                  called.args[4]))

\* the arguments and the outcome of the call in Fri.prove, and those of the
\* call in Fri.verify on the stream prove wrote, read up to the last codeword
BothSampled(instance, committed, proved) ==
    LET prover == Fri_prove_sample_args(instance, committed)
        verifier == Fri_verify_sample_args(instance,
                        [proved.ps EXCEPT !.read_index = Fri_num_rounds(instance) + 1])
    IN  [exc |-> proved.exc,
         val |-> [prover |-> prover,
                  verifier |-> verifier,
                  prover_indices |-> proved.val,
                  verifier_indices |->
                      Fri_sample_indices(verifier[1], verifier[2], verifier[3], verifier[4])]]

\* fri.prove(codeword, proof_stream), then the sampling of fri.verify(proof_stream)
ProveAndVerifySample ==
    /\ called.fn = "prove_and_verify"
    /\ Returns(BothSampled(called.args[1],
                           Fri_commit(called.args[1], called.args[2], ProofStream_new(<<>>)),
                           Fri_prove(called.args[1], called.args[2], ProofStream_new(<<>>))))

SampleIndicesNext == SampleIndices \/ ProveAndVerifySample

SpecSampleIndices == SampleIndicesInit /\ [][SampleIndicesNext]_vars

\* C24: sample_indices(seed, size, reduced_size, number) fails when number >
\* reduced_size; otherwise, whenever it returns, the result has exactly
\* number indices, each in [0, size), pairwise distinct and pairwise distinct
\* modulo reduced_size; and Fri.prove and Fri.verify call it with the same
\* size L / 2 and the same reduced_size, and obtain the same top-level
\* indices from the same transcript.
C24_SampleIndices ==
    /\ (returned.done /\ called.fn = "sample_indices") =>
          LET size == called.args[2]
              reduced_size == called.args[3]
              number == called.args[4]
              indices == returned.val
          IN  /\ number > reduced_size => returned.exc = "ValueError"
              /\ returned.exc = "" =>
                    /\ number <= reduced_size
                    /\ Len(indices) = number
                    /\ \A i \in 1..number : indices[i] \in 0..(size - 1)
                    /\ \A i, j \in 1..number :
                          i # j => /\ indices[i] # indices[j]
                                   /\ indices[i] % reduced_size # indices[j] % reduced_size
    /\ (returned.done /\ called.fn = "prove_and_verify") =>
          /\ returned.exc = ""
          /\ returned.val.prover[2] = called.args[1].domain_length \div 2
          /\ returned.val.verifier[2] = called.args[1].domain_length \div 2
          /\ returned.val.prover[3] = returned.val.verifier[3]
          /\ returned.val.prover[1] = returned.val.verifier[1]
          /\ returned.val.verifier_indices.exc = ""
          /\ returned.val.verifier_indices.val = returned.val.prover_indices
          /\ Len(returned.val.prover_indices) = called.args[1].num_colinearity_tests

\* a sampled index was rejected because its residue modulo reduced_size was
\* taken, and the call returned the indices asked for
C24_Witness ==
    /\ returned.done
    /\ called.fn = "sample_indices"
    /\ returned.exc = ""
    /\ called.args[4] >= 2
    /\ returned.val # Fri_sample_indices_unreduced(called.args[1], called.args[2],
                                                   called.args[3], called.args[4]).val

(***************************************************************************)
(* ntt.py: ntt on lists of every length up to MaxNttLength and roots of    *)
(* every kind: 0, 1, and elements of order 2, 4 and GeneratorOrder.        *)
(***************************************************************************)
MaxNttLength == 4

Roots == {0, 1, P - 1, Field_primitive_nth_root(4), Field_generator}

NttAnyInit ==
    /\ \E n \in 0..MaxNttLength :
          \E xs \in [1..n -> Elements], w \in Roots :
             called = [fn |-> "ntt", args |-> <<w, List(xs)>>]
    /\ returned = NoResult
    /\ StreamIdle
    /\ MerkleIdle
    /\ FriIdle
    /\ StarkIdle

SpecNttAny == NttAnyInit /\ [][Ntt]_vars

\* w has multiplicative order exactly n
HasOrder(w, n) ==
    /\ n >= 1
    /\ FieldElement_pow(w, n) = 1
    /\ \A k \in 1..(n - 1) : FieldElement_pow(w, k) # 1

\* C25: ntt(root, coeffs) fails with an error whenever len(coeffs) is not a
\* power of two or root does not have multiplicative order exactly
\* len(coeffs), length 1 with a root different from 1 included; it returns no
\* result in those cases.
C25_NttRejects ==
    (returned.done /\ called.fn = "ntt"
       /\ (~IsPowerOfTwo(Len(called.args[2]))
             \/ ~HasOrder(called.args[1], Len(called.args[2])))) =>
        returned.exc # ""

\* the same for the lengths from 2 on
NttRejectsFromTwo ==
    (returned.done /\ called.fn = "ntt" /\ Len(called.args[2]) >= 2
       /\ (~IsPowerOfTwo(Len(called.args[2]))
             \/ ~HasOrder(called.args[1], Len(called.args[2])))) =>
        returned.exc = "ValueError"



\* verify has run on what the honest prover sent: the proof prove returned,
\* or its complete transcript
HonestlyVerified ==
    /\ stark_verified.op = "verify"
    /\ \/ stark_verified.forged = ""
       \/ /\ stark_verified.forged = "prefix"
          /\ stark_verified.proof
                 = Forged(stark_proved.objects, "prefix", Len(stark_proved.objects))

\* C26: in an honest run the verifier reads the openings of the boundary
\* quotient codewords, of the randomizer codeword and of the transition
\* zerofier codeword at the positions where the prover opened them, in the
\* same order, and when verify returns true it has pulled every object of
\* the proof stream.
C26_OpeningsInStep ==
    (BoundaryHolds /\ TransitionsHold /\ HonestlyVerified) =>
        /\ stark_verified.positions = stark_proved.positions
        /\ stark_verified.verdict =>
               stark_verified.read_index = Len(stark_proved.objects)

\* once the verifier reads openings, it reads them where the prover opened
OpeningsInStepOnceRead ==
    (BoundaryHolds /\ TransitionsHold /\ HonestlyVerified) =>
        /\ stark_verified.positions \in {<<>>, stark_proved.positions}
        /\ stark_verified.verdict =>
               /\ stark_verified.read_index = Len(stark_proved.objects)
               /\ stark_verified.positions = stark_proved.positions

(***************************************************************************)
(* fast_stark.py: the degree bounds and the shift exponents of the         *)
(* nonlinear combination, as prove and as verify compute them, for the     *)
(* statements of SpecStark with boundary constraints on any cycles.        *)
(***************************************************************************)
MaxShiftCycles == 4

\* the boundary constraints that fix register 0 on the chosen cycles to the
\* values of the trace
BoundaryOn(rows, chosen) ==
    SelectSeq(List([c \in 1..Len(rows) |-> <<c - 1, 0, rows[c][1]>>]),
              LAMBDA b : chosen[b[1]])

ShiftsInit ==
    /\ \E num_colinearity_checks \in 0..1, num_cycles \in 2..MaxShiftCycles,
          system \in Range(Systems), seed \in Seeds :
          \E chosen \in [0..(num_cycles - 1) -> BOOLEAN] :
              /\ \E c \in 0..(num_cycles - 1) : chosen[c]
              /\ FastStark_init_exc(4, num_colinearity_checks, 2 * num_colinearity_checks,
                                    1, num_cycles, ConstraintsDegreeOf(system)) = ""
              /\ called = [fn |-> "shifts",
                           args |-> <<FastStark_new(4, num_colinearity_checks,
                                                    2 * num_colinearity_checks, 1,
                                                    num_cycles,
                                                    ConstraintsDegreeOf(system)),
                                      TraceOf(system, num_cycles),
                                      TransitionConstraintsOf(system),
                                      BoundaryOn(TraceOf(system, num_cycles), chosen),
                                      seed>>]
    /\ returned = NoResult
    /\ StreamIdle
    /\ MerkleIdle
    /\ FriIdle
    /\ StarkIdle

\* max_degree - bound for each bound
ShiftsOf(max_degree, bounds) ==
    List([i \in 1..Len(bounds) |-> max_degree - bounds[i]])

\* what prove and verify compute for a statement: the outcome of prove,
\* max_degree, the transition quotient degree bounds, and the boundary
\* quotient degree bounds of prove, from len(trace), and of verify, from the
\* trace length it infers
ShiftsComputed(instance, rows, constraints, boundary, seed, preprocessing) ==
    [proved |-> FastStark_prove(instance, rows, constraints, boundary,
                                preprocessing.val[1], preprocessing.val[2], seed).exc,
     max_degree |-> FastStark_max_degree(instance, constraints),
     transition_bounds |->
         FastStark_transition_quotient_degree_bounds(instance, constraints),
     prove_bounds |->
         FastStark_boundary_quotient_degree_bounds(instance,
             Len(RandomizedTrace(instance, rows, seed)), boundary),
     verify_bounds |->
         FastStark_boundary_quotient_degree_bounds(instance,
             verify_randomized_trace_length(instance, boundary), boundary)]

\* stark.prove(...) and the bounds of stark.verify(...) on its statement
Shifts ==
    /\ called.fn = "shifts"
    /\ Returns(Ok(ShiftsComputed(called.args[1], called.args[2], called.args[3],
                                 called.args[4], called.args[5],
                                 FastStark_preprocess(called.args[1]))))

SpecShifts == ShiftsInit /\ [][Shifts]_vars

\* C27: for every set of boundary constraints, with or without one on the
\* last cycle, the boundary quotient degree bounds and the shift exponents
\* that verify computes from the trace length it infers equal the ones
\* prove computes from the length of the randomized trace.
C27_VerifierInfersLength ==
    (returned.done /\ called.fn = "shifts") =>
        /\ returned.val.verify_bounds = returned.val.prove_bounds
        /\ ShiftsOf(returned.val.max_degree, returned.val.verify_bounds)
               = ShiftsOf(returned.val.max_degree, returned.val.prove_bounds)

\* the bounds agree when a boundary constraint is on the last cycle
VerifierInfersLengthFromLastCycle ==
    (/\ returned.done
     /\ called.fn = "shifts"
     /\ \E n \in 1..Len(called.args[4]) : called.args[4][n][1] = Len(called.args[2]) - 1) =>
        returned.val.verify_bounds = returned.val.prove_bounds

\* the power of x that shifts a quotient of degree bound to max_degree: the
\* shift is not negative, x^shift has degree shift, and the verifier's power
\* of a point is the value of the prover's power of x there
ShiftAligns(max_degree, bound, point) ==
    /\ max_degree - bound >= 0
    /\ Polynomial_degree(Polynomial_pow(<<0, 1>>, max_degree - bound)) + bound
           = max_degree
    /\ FieldElement_pow(point, max_degree - bound)
           = Polynomial_evaluate(Polynomial_pow(<<0, 1>>, max_degree - bound), point)

\* C28: for every statement prove accepts, each shift exponent of the
\* combination, max_degree minus a transition quotient degree bound and
\* max_degree minus a boundary quotient degree bound, is non-negative, so
\* each shifted term has degree max_degree and the prover's power of x and
\* the verifier's power of a point use the same exponent.
C28_ShiftsNonNegative ==
    (returned.done /\ called.fn = "shifts" /\ returned.val.proved = "") =>
        /\ \A i \in 1..Len(returned.val.transition_bounds) :
               ShiftAligns(returned.val.max_degree, returned.val.transition_bounds[i],
                           called.args[1].generator)
        /\ \A i \in 1..Len(returned.val.prove_bounds) :
               ShiftAligns(returned.val.max_degree, returned.val.prove_bounds[i],
                           called.args[1].generator)

\* the shifts of the transition quotients are never negative
TransitionShiftsNonNegative ==
    (returned.done /\ called.fn = "shifts") =>
        \A i \in 1..Len(returned.val.transition_bounds) :
            ShiftAligns(returned.val.max_degree, returned.val.transition_bounds[i],
                        called.args[1].generator)

(***************************************************************************)
(* fast_coset_divide (ntt.py) on operands of which the second need not     *)
(* divide the first: lhs of degree up to MaxQuotientDegree, rhs of degree  *)
(* up to 1.                                                                *)
(***************************************************************************)
CosetDivideAnyInit ==
    /\ \E d \in 0..MaxQuotientDegree, c \in 0..2, e \in 0..1, b0, b1 \in 0..2,
          offset \in 1..MaxOffset, root \in PrimitiveRoots(16) :
          called = [fn |-> "fast_coset_divide_operands",
                    args |-> <<Polynomial_new(Binomial(d, c, e)),
                               Polynomial_new(<<b0, b1>>), offset, root, 16>>]
    /\ returned = NoResult
    /\ StreamIdle
    /\ MerkleIdle
    /\ FriIdle
    /\ StarkIdle

\* fast_coset_divide(lhs, rhs, offset, root, n)
CosetDivideAny ==
    /\ called.fn = "fast_coset_divide_operands"
    /\ Returns(fast_coset_divide(called.args[1], called.args[2], called.args[3],
                                 called.args[4], called.args[5]))

SpecCosetDivideAny == CosetDivideAnyInit /\ [][CosetDivideAny]_vars

\* C29: whenever fast_coset_divide(lhs, rhs, offset, root, order) returns a
\* polynomial q, q * rhs = lhs: when rhs does not divide lhs, or vanishes on
\* the evaluation coset, the call raises, for operands of degree 8 and more
\* as for smaller ones.
C29_CosetDivideExact ==
    (called.fn = "fast_coset_divide_operands" /\ returned.done /\ returned.exc = "") =>
        Polynomial_mul(returned.val, called.args[2]) = called.args[1]

\* on the schoolbook path a polynomial that is returned is the quotient
CosetDivideExactBelowEight ==
    (/\ called.fn = "fast_coset_divide_operands"
     /\ returned.done
     /\ returned.exc = ""
     /\ Polynomial_degree(called.args[1]) < 8) =>
        Polynomial_mul(returned.val, called.args[2]) = called.args[1]

(***************************************************************************)
(* multivariate.py: evaluate_symbolic at a tuple of univariate polynomials *)
(* of at most MaxPointLength coefficients, against evaluate at the values  *)
(* of the polynomials.                                                     *)
(***************************************************************************)
MaxPointLength == 2

\* f.evaluate_symbolic(polynomials).evaluate(x), and
\* f.evaluate(tuple(p.evaluate(x) for p in polynomials))
BothEvaluated(f, polynomials, x, symbolic) ==
    Ok([symbolic |-> IF symbolic.exc # "" THEN symbolic
                     ELSE Ok(Polynomial_evaluate(symbolic.val, x)),
        pointwise |-> MPolynomial_evaluate(f,
                          List([i \in 1..Len(polynomials) |->
                                  Polynomial_evaluate(polynomials[i], x)]))])

EvaluateSymbolicInit ==
    /\ \E n \in Arities, x \in Elements :
          \E f \in MPolynomials(n),
             polynomials \in [1..n -> {p \in Polynomials : Len(p) <= MaxPointLength}] :
              called = [fn |-> "evaluate_symbolic", args |-> <<f, List(polynomials), x>>]
    /\ returned = NoResult
    /\ StreamIdle
    /\ MerkleIdle
    /\ FriIdle
    /\ StarkIdle

\* f.evaluate_symbolic(polynomials).evaluate(x)
EvaluateSymbolic ==
    /\ called.fn = "evaluate_symbolic"
    /\ Returns(BothEvaluated(called.args[1], called.args[2], called.args[3],
                             MPolynomial_evaluate_symbolic(called.args[1],
                                                           called.args[2])))

SpecEvaluateSymbolic == EvaluateSymbolicInit /\ [][EvaluateSymbolic]_vars

\* C30: symbolic and pointwise evaluation commute: for every polynomial f
\* in n >= 1 variables, every tuple of n univariate polynomials and every
\* field element x, f.evaluate_symbolic(polynomials).evaluate(x) equals
\* f.evaluate of the values of the polynomials at x.
C30_EvaluationsCommute ==
    (/\ returned.done
     /\ called.fn = "evaluate_symbolic"
     /\ MPolynomial_num_variables(called.args[1]) = Len(called.args[2])) =>
        /\ returned.val.symbolic.exc = ""
        /\ returned.val.pointwise.exc = ""
        /\ returned.val.symbolic.val = returned.val.pointwise.val

\* the evaluations commute when none of the polynomials is the zero
\* polynomial
EvaluationsCommuteOffZero ==
    (/\ returned.done
     /\ called.fn = "evaluate_symbolic"
     /\ MPolynomial_num_variables(called.args[1]) = Len(called.args[2])
     /\ \A i \in 1..Len(called.args[2]) : called.args[2][i] # <<>>) =>
        /\ returned.val.symbolic.exc = ""
        /\ returned.val.pointwise.exc = ""
        /\ returned.val.symbolic.val = returned.val.pointwise.val

=============================================================================
